---- MODULE Spec2Model ----
(***************************************************************************)
(* A model of the markdown-rag server: the reindex endpoints and their     *)
(* worker threads (app/rag_server.py), and the retrieval pipeline          *)
(* _retrieve with its date range and name filters.                         *)
(***************************************************************************)
EXTENDS Integers, Sequences, FiniteSets, TLC

\* ------------------------------------------------------------------------
\* Bounds of the model
\* ------------------------------------------------------------------------

\* threads the reindex handlers may start in one behaviour
MaxThreads == 2

\* largest chunk count a build returns
MaxChunks == 1

\* the events the watcher handles in a behaviour
MaxEvents == 2

\* the chunks of a note
MaxFileChunks == 2

\* the largest mtime of a note
MaxMtime == 2

None == "None"

\* ------------------------------------------------------------------------
\* Strings (Python str operations used by the server)
\* ------------------------------------------------------------------------

UPPER == "ABCDEFGHIJKLMNOPQRSTUVWXYZ"
LOWER == "abcdefghijklmnopqrstuvwxyz"
DIGITS == "0123456789"

Char(s, i) == SubSeq(s, i, i)

IndexIn(c, alphabet) ==
    IF \E i \in 1..Len(alphabet) : Char(alphabet, i) = c
    THEN CHOOSE i \in 1..Len(alphabet) : Char(alphabet, i) = c
    ELSE 0

UpperChars == {Char(UPPER, i) : i \in 1..Len(UPPER)}
LowerChars == {Char(LOWER, i) : i \in 1..Len(LOWER)}
DigitChars == {Char(DIGITS, i) : i \in 1..Len(DIGITS)}

IsUpper(c) == c \in UpperChars
IsLower(c) == c \in LowerChars
IsLetter(c) == IsUpper(c) \/ IsLower(c)
IsDigit(c) == c \in DigitChars
IsSpace(c) == c \in {" ", "\t", "\n"}
\* a character of the regular expression class \w
IsWordChar(c) == IsLetter(c) \/ IsDigit(c) \/ c = "_"

LowerChar(c) == IF IsUpper(c) THEN Char(LOWER, IndexIn(c, UPPER)) ELSE c

RECURSIVE StrLower(_)
\* str.lower()
StrLower(s) ==
    IF Len(s) = 0 THEN ""
    ELSE LowerChar(Char(s, 1)) \o StrLower(SubSeq(s, 2, Len(s)))

\* `needle in hay`
StrIn(needle, hay) ==
    \E i \in 1..(Len(hay) - Len(needle) + 1) :
        SubSeq(hay, i, i + Len(needle) - 1) = needle

RECURSIVE StrLStrip(_)
StrLStrip(s) ==
    IF Len(s) > 0 /\ IsSpace(Char(s, 1)) THEN StrLStrip(SubSeq(s, 2, Len(s))) ELSE s

RECURSIVE StrRStrip(_)
StrRStrip(s) ==
    IF Len(s) > 0 /\ IsSpace(Char(s, Len(s))) THEN StrRStrip(SubSeq(s, 1, Len(s) - 1)) ELSE s

\* str.strip()
StrStrip(s) == StrRStrip(StrLStrip(s))

\* the index of the first occurrence of the character c in s, 0 when absent
StrFind(s, c) ==
    IF \E i \in 1..Len(s) : Char(s, i) = c
    THEN CHOOSE i \in 1..Len(s) : Char(s, i) = c /\ \A j \in 1..(i - 1) : Char(s, j) # c
    ELSE 0

RECURSIVE StrSplit(_, _)
\* str.split(c)
StrSplit(s, c) ==
    LET i == StrFind(s, c)
    IN  IF i = 0 THEN <<s>>
        ELSE <<SubSeq(s, 1, i - 1)>> \o StrSplit(SubSeq(s, i + 1, Len(s)), c)

\* str.split(c, 1)
StrSplitOnce(s, c) ==
    LET i == StrFind(s, c)
    IN  IF i = 0 THEN <<s>>
        ELSE <<SubSeq(s, 1, i - 1), SubSeq(s, i + 1, Len(s))>>

RECURSIVE StrJoin(_, _)
\* sep.join(parts)
StrJoin(sep, parts) ==
    IF Len(parts) = 0 THEN ""
    ELSE IF Len(parts) = 1 THEN parts[1]
    ELSE parts[1] \o sep \o StrJoin(sep, Tail(parts))

\* [x for x in s if Keep(x)]
SeqFilter(s, Keep(_)) ==
    LET F[i \in 0..Len(s)] ==
            IF i = 0 THEN << >>
            ELSE IF Keep(s[i]) THEN Append(F[i - 1], s[i]) ELSE F[i - 1]
    IN  F[Len(s)]

SeqMap(s, F(_)) == [i \in 1..Len(s) |-> F(s[i])]

SeqElems(s) == {s[i] : i \in 1..Len(s)}

\* list(dict.fromkeys(s)): the first occurrence of every element, in order
DictFromKeys(s) ==
    LET keep == {i \in 1..Len(s) : \A j \in 1..(i - 1) : s[j] # s[i]}
        F[i \in 0..Len(s)] ==
            IF i = 0 THEN << >>
            ELSE IF i \in keep THEN Append(F[i - 1], s[i]) ELSE F[i - 1]
    IN  F[Len(s)]

Max(a, b) == IF a >= b THEN a ELSE b
Min(a, b) == IF a <= b THEN a ELSE b

\* ------------------------------------------------------------------------
\* Dates (datetime.fromisoformat(...).date(), date.toordinal())
\* ------------------------------------------------------------------------

RECURSIVE StrToInt(_)
\* int(s) of a string of decimal digits
StrToInt(s) ==
    IF Len(s) = 0 THEN 0
    ELSE 10 * StrToInt(SubSeq(s, 1, Len(s) - 1)) + (IndexIn(Char(s, Len(s)), DIGITS) - 1)

AllDigits(s) == \A i \in 1..Len(s) : IsDigit(Char(s, i))

IsLeap(y) == (y % 4 = 0) /\ ((y % 100 # 0) \/ (y % 400 = 0))

DaysInMonth(y, m) ==
    IF m = 2 THEN (IF IsLeap(y) THEN 29 ELSE 28)
    ELSE IF m \in {4, 6, 9, 11} THEN 30 ELSE 31

\* datetime(y, m, d) accepts the triple
ValidYMD(y, m, d) ==
    /\ y \in 1..9999
    /\ m \in 1..12
    /\ d >= 1 /\ d <= DaysInMonth(y, m)

RECURSIVE DaysBeforeMonth(_, _)
DaysBeforeMonth(y, m) ==
    IF m <= 1 THEN 0 ELSE DaysBeforeMonth(y, m - 1) + DaysInMonth(y, m - 1)

\* date(y, m, d).toordinal()
YMDToOrdinal(y, m, d) ==
    (y - 1) * 365 + ((y - 1) \div 4) - ((y - 1) \div 100) + ((y - 1) \div 400)
        + DaysBeforeMonth(y, m) + d

\* the text has the shape YYYY-MM-DD
IsoShape(s) ==
    /\ Len(s) = 10
    /\ Char(s, 5) = "-" /\ Char(s, 8) = "-"
    /\ AllDigits(SubSeq(s, 1, 4)) /\ AllDigits(SubSeq(s, 6, 7)) /\ AllDigits(SubSeq(s, 9, 10))

\* datetime.fromisoformat(s).date().toordinal() of a metadata value, -1 when
\* fromisoformat raises. The values of the model are None, texts of the
\* shape YYYY-MM-DD and texts that are no date in any format.
IsoToOrdinal(s) ==
    IF s = None \/ ~IsoShape(s) THEN -1
    ELSE LET y == StrToInt(SubSeq(s, 1, 4))
             m == StrToInt(SubSeq(s, 6, 7))
             d == StrToInt(SubSeq(s, 9, 10))
         IN  IF ValidYMD(y, m, d) THEN YMDToOrdinal(y, m, d) ELSE -1

\* ------------------------------------------------------------------------
\* Query-time name terms (name_parser.py)
\* ------------------------------------------------------------------------

STOP == {
    "What", "When", "Where", "Which", "Who", "Why", "How", "The", "In", "On",
    "For", "And", "Or", "Of", "Last", "Past", "Previous", "Most", "Recent",
    "Latest", "I", "We", "Us", "Me", "My", "Our", "Ours", "You", "Your",
    "Yours", "He", "She", "They", "Them", "His", "Her", "Their", "Notes",
    "Note", "Quick", "Catch", "Up", "Catch-up", "Todo", "To", "Do", "Tasks",
    "Task", "Meeting", "Meet", "Journal", "Daily", "Weights", "Ideas",
    "Agent", "Talk", "Talked", "About", "From", "With", "At" }

\* the text matches [A-Z][A-Za-z]+(?:\s+[A-Z][A-Za-z]+)*
NameContentOK(c) ==
    /\ Len(c) >= 2
    /\ \A i \in 1..Len(c) : IsLetter(Char(c, i)) \/ IsSpace(Char(c, i))
    /\ IsLetter(Char(c, 1)) /\ IsLetter(Char(c, Len(c)))
    /\ \A i \in 1..Len(c) :
          (IsLetter(Char(c, i)) /\ (i = 1 \/ IsSpace(Char(c, i - 1))))
              => /\ IsUpper(Char(c, i))
                 /\ i < Len(c)
                 /\ IsLetter(Char(c, i + 1))

\* where a NAME_QUOTED match that opens at the quote character at i closes, 0
\* when there is none: the content holds letters and white space only, so
\* the closing quote is the first other character after i
QuotedClose(q, i) ==
    LET others == {j \in (i + 1)..Len(q) :
                      ~(IsLetter(Char(q, j)) \/ IsSpace(Char(q, j)))}
        j == IF others = {} THEN 0
             ELSE CHOOSE j \in others : \A h \in others : j <= h
    IN  IF /\ Char(q, i) \in {"\"", "'"}
           /\ j > 0
           /\ Char(q, j) = Char(q, i)
           /\ NameContentOK(SubSeq(q, i + 1, j - 1))
        THEN j ELSE 0

RECURSIVE QuotedNames(_, _)
\* the groups of NAME_QUOTED.finditer(q), scanning from position i
QuotedNames(q, i) ==
    IF i > Len(q) THEN << >>
    ELSE LET j == QuotedClose(q, i)
         IN  IF j > 0
             THEN <<StrStrip(SubSeq(q, i + 1, j - 1))>> \o QuotedNames(q, j + 1)
             ELSE QuotedNames(q, i + 1)

\* the end of the match of \b[A-Z][a-zA-Z]{2,}\b that starts at i, 0 when
\* there is none
TokenEnd(q, i) ==
    LET stops == {j \in i..Len(q) : ~IsLetter(Char(q, j))}
        e == IF stops = {} THEN Len(q)
             ELSE (CHOOSE j \in stops : \A h \in stops : j <= h) - 1
    IN  IF /\ IsUpper(Char(q, i))
           /\ (i = 1 \/ ~IsWordChar(Char(q, i - 1)))
           /\ e - i + 1 >= 3
           /\ (e = Len(q) \/ ~IsWordChar(Char(q, e + 1)))
        THEN e ELSE 0

RECURSIVE CapitalTokens(_, _)
\* re.findall(r"\b[A-Z][a-zA-Z]{2,}\b", q), scanning from position i
CapitalTokens(q, i) ==
    IF i > Len(q) THEN << >>
    ELSE LET e == TokenEnd(q, i)
         IN  IF e > 0
             THEN <<SubSeq(q, i, e)>> \o CapitalTokens(q, e + 1)
             ELSE CapitalTokens(q, i + 1)

NotStop(t) == t \notin STOP

extract_name_terms(q) ==
    LET quoted == QuotedNames(q, 1)
    IN  IF Len(quoted) > 0 THEN DictFromKeys(quoted)
        ELSE DictFromKeys(SeqFilter(CapitalTokens(q, 1), NotStop))

\* ------------------------------------------------------------------------
\* Retrieval: the pure parts of _retrieve (rag_server.py)
\* ------------------------------------------------------------------------

\* The chunks of the vector store, by id. A metadata key that a chunk does
\* not have is None (what meta.get returns), and -1 for the numeric
\* entry_date_ts. Front matter may set any key, so
\* entry_date_ts and entities come from the notes, entry_date from the
\* note's date headings or its front matter.
Chunks == <<
    [source |-> "work/standup.md", title |-> "Standup",
     entry_date |-> "2025-01-15", entry_date_ts |-> 1736899200,
     entities |-> "person:Alice Brown, org:Acme"],
    [source |-> "notes/bob.md", title |-> "Alice and Bob",
     entry_date |-> "2025-01-10", entry_date_ts |-> 1736467200,
     entities |-> None],
    [source |-> "acme.md", title |-> "Acme",
     entry_date |-> None, entry_date_ts |-> 1736726400,
     entities |-> "org:Acme, person:Bob"],
    [source |-> "x.md", title |-> "x",
     entry_date |-> "2025-02-30", entry_date_ts |-> -1,
     entities |-> "person:Al"] >>

ChunkIds == 1..Len(Chunks)

\* d.metadata
Meta(d) == Chunks[d]

\* the questions of the model
Queries == {"notes", "latest notes", "latest Alice", "Alice Bob"}

\* what DateParser.parse returns: a pair (start, end), start <= end when both
\* are set
DateParserResults ==
    { <<None, None>>, <<"2025-01-15", None>>, <<None, "2025-01-10">>,
      <<"2025-01-10", "2025-01-15">>, <<"2025-01-15", "2025-01-15">> }

\* a parser result of the shape _parse_date_range is annotated with and
\* _retrieve unpacks: (start, end, aug)
DateParserTriples ==
    {<<r[1], r[2], aug>> : r \in DateParserResults, aug \in {<< >>, <<"2025-01-15">>}}

ValueError == <<"ValueError">>

\* s, e, aug = parser.parse(q, tz_name); return s, e, aug
\* parsed is what parser.parse returned; unpacking it into three names raises
\* ValueError unless it has three elements
_parse_date_range(parsed) ==
    IF Len(parsed) = 3 THEN parsed ELSE ValueError

\* the augmented query
q_aug(q, name_terms, start, end, iso_aug) ==
    LET q1 == StrLower(q)
        q2 == IF Len(name_terms) > 0
              THEN q1 \o "\nNames: " \o StrJoin(", ", name_terms)
              ELSE q1
    IN  IF Len(iso_aug) > 0
        THEN IF start # None /\ end # None /\ start # end
                 THEN q2 \o "\nDates: " \o start \o " to " \o end
             ELSE IF start # None /\ end # None /\ start = end
                 THEN q2 \o "\nDate: " \o start
             ELSE IF start # None THEN q2 \o "\nSince: " \o start
             ELSE IF end # None THEN q2 \o "\nBefore: " \o end
             ELSE q2
        ELSE q2

\* _in_range(meta) for the bounds start, end
_in_range(meta, start, end) ==
    LET d == meta.entry_date
        dd == IsoToOrdinal(d)
        sdt == IsoToOrdinal(start)
        edt == IsoToOrdinal(end)
    IN  IF d = None \/ d = "" THEN FALSE
        ELSE IF dd = -1 THEN FALSE
        ELSE IF start # None /\ end # None THEN sdt <= dd /\ dd <= edt
        ELSE IF start # None THEN dd >= sdt
        ELSE IF end # None THEN dd <= edt
        ELSE TRUE

\* the metadata filter of the first search
where(start, end) ==
    IF start # None /\ end # None THEN [op |-> "range", gte |-> start, lte |-> end]
    ELSE IF start # None THEN [op |-> "range", gte |-> start, lte |-> None]
    ELSE [op |-> "range", gte |-> None, lte |-> end]

NoFilter == [op |-> "none", gte |-> None, lte |-> None]

\* filter={"entry_date": start}
EqFilter(start) == [op |-> "eq", gte |-> start, lte |-> start]

RecentWords == <<"most recent", "latest", "recent">>

wants_recent(q, start, end, iso_aug) ==
    \/ \E i \in 1..Len(RecentWords) : StrIn(RecentWords[i], StrLower(q))
    \/ (Len(iso_aug) > 0 /\ start = None /\ end = None)

\* the size of the wide-net pool
pool(k, name_terms, start, end) ==
    IF Len(name_terms) > 0 \/ start # None \/ end # None
    THEN Max(k * 40, 800) ELSE Max(k * 10, 200)

NonEmptyStr(x) == x # ""

\* values_lower of _entities_match: the entity values without their kind
\* prefix, stripped and lower-cased
values_lower(meta) ==
    LET entities == IF meta.entities = None THEN << >>
                    ELSE SeqFilter(SeqMap(StrSplit(meta.entities, ","), StrStrip),
                                   NonEmptyStr)
        Val(e) == LET parts == StrSplitOnce(e, ":")
                  IN  StrLower(StrStrip(IF Len(parts) = 2 THEN parts[2] ELSE parts[1]))
    IN  SeqFilter(SeqMap(entities, Val), NonEmptyStr)

_entities_match(meta, name_terms) ==
    /\ Len(name_terms) > 0
    /\ \A i \in 1..Len(name_terms) :
          LET tl == StrLower(name_terms[i])
              vs == values_lower(meta)
          IN  \/ \E j \in 1..Len(vs) : tl = vs[j] \/ StrIn(tl, vs[j]) \/ StrIn(vs[j], tl)
              \/ StrIn(tl, StrLower(meta.title))
              \/ StrIn(tl, StrLower(meta.source))

\* _key of _sort_by_recent: the ordinal of entry_date, -1 when it is missing
\* or does not parse
_key(d) == IsoToOrdinal(IF Meta(d).entry_date = None THEN "" ELSE Meta(d).entry_date)

\* _key of every chunk of the store, evaluated once
KeyOf == [d \in ChunkIds |-> _key(d)]

\* sorted(docs, key=_key, reverse=True): stable, equal keys keep their order
SortedByKeyDesc(docs) ==
    LET Insert(lst, x) ==
            LET before == {i \in 1..Len(lst) : KeyOf[lst[i]] < KeyOf[x]}
                at == IF before = {} THEN Len(lst) + 1
                      ELSE CHOOSE i \in before : \A j \in before : i <= j
            IN  SubSeq(lst, 1, at - 1) \o <<x>> \o SubSeq(lst, at, Len(lst))
        F[i \in 0..Len(docs)] ==
            IF i = 0 THEN << >> ELSE Insert(F[i - 1], docs[i])
    IN  F[Len(docs)]

\* the mutant of _sort_by_recent: it sorts whether or not recency is wanted
_sort_by_recent_always(docs, wants) == SortedByKeyDesc(docs)

_sort_by_recent(docs, wants) ==
    IF ~wants THEN docs ELSE SortedByKeyDesc(docs)

\* the mutant of Truncate: the slice is left out
Truncate_none(docs, k) == docs

\* docs[:k] for k >= 0
Truncate(docs, k) == SubSeq(docs, 1, Min(k, Len(docs)))

\* ------------------------------------------------------------------------
\* DateParser: date tokens (date_parser.py)
\* ------------------------------------------------------------------------

RECURSIVE IntToStr(_)
\* str(n) of n >= 0
IntToStr(n) ==
    IF n < 10 THEN Char(DIGITS, n + 1)
    ELSE IntToStr(n \div 10) \o Char(DIGITS, (n % 10) + 1)

RECURSIVE ZeroFill(_, _)
\* the text t, zero-padded on the left to at least w characters
ZeroFill(t, w) == IF Len(t) >= w THEN t ELSE ZeroFill("0" \o t, w)

\* date(y, m, d).isoformat()
IsoFormat(y, m, d) == ZeroFill(IntToStr(y), 4) \o "-" \o ZeroFill(IntToStr(m), 2)
                          \o "-" \o ZeroFill(IntToStr(d), 2)

\* datetime(y, m, d).date().isoformat(), None when datetime raises
_to_iso_date(y, m, d) == IF ValidYMD(y, m, d) THEN IsoFormat(y, m, d) ELSE None

\* MONTHS
MONTHS ==
    [n \in {"jan", "january", "feb", "february", "mar", "march", "apr", "april",
            "may", "jun", "june", "jul", "july", "aug", "august", "sep", "sept",
            "september", "oct", "october", "nov", "november", "dec", "december"} |->
        CASE n \in {"jan", "january"} -> 1
          [] n \in {"feb", "february"} -> 2
          [] n \in {"mar", "march"} -> 3
          [] n \in {"apr", "april"} -> 4
          [] n = "may" -> 5
          [] n \in {"jun", "june"} -> 6
          [] n \in {"jul", "july"} -> 7
          [] n \in {"aug", "august"} -> 8
          [] n \in {"sep", "sept", "september"} -> 9
          [] n \in {"oct", "october"} -> 10
          [] n \in {"nov", "november"} -> 11
          [] n \in {"dec", "december"} -> 12]

\* MONTHS.get(name.strip().lower()); 0 stands for None
_parse_month(name) ==
    LET n == StrLower(StrStrip(name))
    IN  IF n \in DOMAIN MONTHS THEN MONTHS[n] ELSE 0

\* the character of s at position i, "" outside of s
At(s, i) == IF i >= 1 /\ i <= Len(s) THEN Char(s, i) ELSE ""

\* \b holds between the characters i - 1 and i of s
Boundary(s, i) == IsWordChar(At(s, i - 1)) # IsWordChar(At(s, i))

RECURSIVE DigitRun(_, _, _)
\* the number of digits of s from position i on, hi at most
DigitRun(s, i, hi) ==
    IF hi = 0 \/ ~IsDigit(At(s, i)) THEN 0 ELSE 1 + DigitRun(s, i + 1, hi - 1)

RECURSIVE LetterRun(_, _, _)
LetterRun(s, i, hi) ==
    IF hi = 0 \/ ~IsLetter(At(s, i)) THEN 0 ELSE 1 + LetterRun(s, i + 1, hi - 1)

RECURSIVE SpaceRun(_, _)
\* the number of whitespace characters of s from position i on
SpaceRun(s, i) == IF ~IsSpace(At(s, i)) THEN 0 ELSE 1 + SpaceRun(s, i + 1)

\* A match of a pattern at position i of s is the position after the match;
\* 0 is no match. Each quantifier below is greedy; what follows it in its
\* pattern cannot start with a character of its class, so a shorter
\* repetition never matches where the longest does not.

\* ISO_DATE = \b\d{4}-\d{2}-\d{2}\b
ISO_DATE(s, i) ==
    IF /\ Boundary(s, i)
       /\ DigitRun(s, i, 4) = 4 /\ At(s, i + 4) = "-"
       /\ DigitRun(s, i + 5, 2) = 2 /\ At(s, i + 7) = "-"
       /\ DigitRun(s, i + 8, 2) = 2
       /\ Boundary(s, i + 10)
    THEN i + 10 ELSE 0

\* DMY_SLASH = \b(\d{1,2})/(\d{1,2})/(\d{4})\b, with its groups
DMY_SLASH_groups(s, i) ==
    LET a == DigitRun(s, i, 2)
        b == DigitRun(s, i + a + 1, 2)
        j == i + a + 1 + b + 1
    IN  IF /\ Boundary(s, i)
           /\ a >= 1 /\ At(s, i + a) = "/"
           /\ b >= 1 /\ At(s, i + a + 1 + b) = "/"
           /\ DigitRun(s, j, 4) = 4
           /\ Boundary(s, j + 4)
        THEN [to |-> j + 4, g1 |-> SubSeq(s, i, i + a - 1),
              g2 |-> SubSeq(s, i + a + 1, i + a + b), g3 |-> SubSeq(s, j, j + 3)]
        ELSE [to |-> 0, g1 |-> "", g2 |-> "", g3 |-> ""]

DMY_SLASH(s, i) == DMY_SLASH_groups(s, i).to

\* YMD_SLASH = \b(\d{4})/(\d{1,2})/(\d{1,2})\b, with its groups
YMD_SLASH_groups(s, i) ==
    LET b == DigitRun(s, i + 5, 2)
        j == i + 5 + b + 1
        c == DigitRun(s, j, 2)
    IN  IF /\ Boundary(s, i)
           /\ DigitRun(s, i, 4) = 4 /\ At(s, i + 4) = "/"
           /\ b >= 1 /\ At(s, i + 5 + b) = "/"
           /\ c >= 1
           /\ Boundary(s, j + c)
        THEN [to |-> j + c, g1 |-> SubSeq(s, i, i + 3),
              g2 |-> SubSeq(s, i + 5, i + 4 + b), g3 |-> SubSeq(s, j, j + c - 1)]
        ELSE [to |-> 0, g1 |-> "", g2 |-> "", g3 |-> ""]

YMD_SLASH(s, i) == YMD_SLASH_groups(s, i).to

\* MON_D_COMMA_Y = \b([A-Za-z]{3,9})\s+(\d{1,2}),\s*(\d{4})\b, with its groups
MON_D_COMMA_Y_groups(s, i) ==
    LET a == LetterRun(s, i, 9)
        w == SpaceRun(s, i + a)
        j == i + a + w
        b == DigitRun(s, j, 2)
        v == SpaceRun(s, j + b + 1)
        k == j + b + 1 + v
    IN  IF /\ Boundary(s, i)
           /\ a >= 3 /\ w >= 1 /\ b >= 1 /\ At(s, j + b) = ","
           /\ DigitRun(s, k, 4) = 4
           /\ Boundary(s, k + 4)
        THEN [to |-> k + 4, g1 |-> SubSeq(s, i, i + a - 1),
              g2 |-> SubSeq(s, j, j + b - 1), g3 |-> SubSeq(s, k, k + 3)]
        ELSE [to |-> 0, g1 |-> "", g2 |-> "", g3 |-> ""]

MON_D_COMMA_Y(s, i) == MON_D_COMMA_Y_groups(s, i).to

\* D_MON_Y = \b(\d{1,2})\s+([A-Za-z]{3,9})\s+(\d{4})\b, with its groups
D_MON_Y_groups(s, i) ==
    LET a == DigitRun(s, i, 2)
        w == SpaceRun(s, i + a)
        j == i + a + w
        b == LetterRun(s, j, 9)
        v == SpaceRun(s, j + b)
        k == j + b + v
    IN  IF /\ Boundary(s, i)
           /\ a >= 1 /\ w >= 1 /\ b >= 3 /\ v >= 1
           /\ DigitRun(s, k, 4) = 4
           /\ Boundary(s, k + 4)
        THEN [to |-> k + 4, g1 |-> SubSeq(s, i, i + a - 1),
              g2 |-> SubSeq(s, j, j + b - 1), g3 |-> SubSeq(s, k, k + 3)]
        ELSE [to |-> 0, g1 |-> "", g2 |-> "", g3 |-> ""]

D_MON_Y(s, i) == D_MON_Y_groups(s, i).to

\* rex.search(s): the first position where the pattern matches, 0 when none
Search(Rex(_, _), s) ==
    IF \E i \in 1..Len(s) : Rex(s, i) > 0
    THEN CHOOSE i \in 1..Len(s) : Rex(s, i) > 0 /\ \A j \in 1..(i - 1) : Rex(s, j) = 0
    ELSE 0

\* [m.group(0) for m in rex.finditer(s)]
FindIter(Rex(_, _), s) ==
    LET F[i \in 1..(Len(s) + 1)] ==
            IF i > Len(s) THEN << >>
            ELSE IF Rex(s, i) > 0 THEN <<SubSeq(s, i, Rex(s, i) - 1)>> \o F[Rex(s, i)]
            ELSE F[i + 1]
    IN  F[1]

\* token.split(): the words between runs of whitespace
SplitWords(s) ==
    LET F[i \in 1..(Len(s) + 1)] ==
            IF i > Len(s) THEN << >>
            ELSE IF IsSpace(Char(s, i)) THEN F[i + 1]
            ELSE LET e == CHOOSE e \in i..Len(s) :
                              /\ \A j \in i..e : ~IsSpace(Char(s, j))
                              /\ (e = Len(s) \/ IsSpace(Char(s, e + 1)))
                 IN  <<SubSeq(s, i, e)>> \o F[e + 1]
    IN  F[1]

\* DateParser._norm_date_token
_norm_date_token(token) ==
    LET t == StrStrip(token)
        iso == Search(ISO_DATE, t)
        dmy == Search(DMY_SLASH, t)
        ymd == Search(YMD_SLASH, t)
        mdy == Search(MON_D_COMMA_Y, t)
        dmony == Search(D_MON_Y, t)
        parts == SplitWords(t)
    IN  IF iso > 0 THEN SubSeq(t, iso, iso + 9)
        ELSE IF dmy > 0
        THEN LET g == DMY_SLASH_groups(t, dmy)
             IN  _to_iso_date(StrToInt(g.g3), StrToInt(g.g2), StrToInt(g.g1))
        ELSE IF ymd > 0
        THEN LET g == YMD_SLASH_groups(t, ymd)
             IN  _to_iso_date(StrToInt(g.g1), StrToInt(g.g2), StrToInt(g.g3))
        ELSE IF mdy > 0 /\ _parse_month(MON_D_COMMA_Y_groups(t, mdy).g1) # 0
        THEN LET g == MON_D_COMMA_Y_groups(t, mdy)
             IN  _to_iso_date(StrToInt(g.g3), _parse_month(g.g1), StrToInt(g.g2))
        ELSE IF dmony > 0 /\ _parse_month(D_MON_Y_groups(t, dmony).g2) # 0
        THEN LET g == D_MON_Y_groups(t, dmony)
             IN  _to_iso_date(StrToInt(g.g3), _parse_month(g.g2), StrToInt(g.g1))
        ELSE IF Len(parts) = 2 /\ Len(parts[2]) > 0 /\ AllDigits(parts[2])
                /\ _parse_month(parts[1]) # 0
        THEN _to_iso_date(StrToInt(parts[2]), _parse_month(parts[1]), 1)
        ELSE None

\* ------------------------------------------------------------------------
\* DateParser: the rule stages of parse (date_parser.py)
\* ------------------------------------------------------------------------

\* the year of the date with ordinal n
OrdinalYear(n) ==
    CHOOSE y \in ((n \div 366) + 1)..((n \div 365) + 1) :
        YMDToOrdinal(y, 1, 1) <= n /\ n < YMDToOrdinal(y + 1, 1, 1)

\* the month of the date with ordinal n
OrdinalMonth(n) ==
    LET y == OrdinalYear(n)
    IN  CHOOSE m \in 1..12 :
            /\ YMDToOrdinal(y, m, 1) <= n
            /\ n < YMDToOrdinal(y, m, 1) + DaysInMonth(y, m)

\* date.fromordinal(n).isoformat()
OrdinalToIso(n) ==
    LET y == OrdinalYear(n)
        m == OrdinalMonth(n)
    IN  IsoFormat(y, m, n - YMDToOrdinal(y, m, 1) + 1)

\* date.weekday(): Monday is 0
Weekday(n) == (n + 6) % 7

\* DateParser._week_bounds, on ordinals
_week_bounds(day) == <<day - Weekday(day), day - Weekday(day) + 6>>

\* DateParser._month_bounds, on ordinals
_month_bounds(day) ==
    LET y == OrdinalYear(day)
        m == OrdinalMonth(day)
        first == YMDToOrdinal(y, m, 1)
        next_first == IF m = 12 THEN YMDToOrdinal(y + 1, 1, 1) ELSE YMDToOrdinal(y, m + 1, 1)
    IN  <<first, next_first - 1>>

\* s starts at position i with the text w
LitAt(s, i, w) ==
    i >= 1 /\ i + Len(w) - 1 <= Len(s) /\ SubSeq(s, i, i + Len(w) - 1) = w

\* the alternatives of RELATIVE_RE, in its order
RelativePhrases ==
    <<"today", "yesterday", "this week", "last week", "this month", "last month",
      "this year", "last year", "recent", "recently", "lately", "just">>

\* the first alternative of alts that s has at position i with \b after it,
\* 0 when none: the alternation tries its alternatives in order
AltAt(s, i, alts) ==
    IF \E a \in 1..Len(alts) : LitAt(s, i, alts[a]) /\ Boundary(s, i + Len(alts[a]))
    THEN CHOOSE a \in 1..Len(alts) :
             /\ LitAt(s, i, alts[a]) /\ Boundary(s, i + Len(alts[a]))
             /\ \A b \in 1..(a - 1) : ~(LitAt(s, i, alts[b]) /\ Boundary(s, i + Len(alts[b])))
    ELSE 0

\* RELATIVE_RE on the lower-cased text (re.IGNORECASE)
RELATIVE_RE(s, i) ==
    IF Boundary(s, i) /\ AltAt(s, i, RelativePhrases) > 0
    THEN i + Len(RelativePhrases[AltAt(s, i, RelativePhrases)])
    ELSE 0

\* the window of a relative phrase, as ordinals; now is today's ordinal
RelativeWindow(p, now) ==
    CASE p \in {"today", "just"} -> <<now, now>>
      [] p = "yesterday" -> <<now - 1, now - 1>>
      [] p \in {"recent", "recently", "lately"} -> <<now - 30, now>>
      [] p = "this week" -> _week_bounds(now)
      [] p = "last week" -> _week_bounds(now - 7)
      [] p = "this month" -> _month_bounds(now)
      [] p = "last month" -> _month_bounds(_month_bounds(now)[1] - 1)
      [] p = "this year" -> <<YMDToOrdinal(OrdinalYear(now), 1, 1),
                              YMDToOrdinal(OrdinalYear(now), 12, 31)>>
      [] p = "last year" -> <<YMDToOrdinal(OrdinalYear(now) - 1, 1, 1),
                              YMDToOrdinal(OrdinalYear(now) - 1, 12, 31)>>

\* the first words of the quantified windows
WindowWords == <<"last", "past", "previous">>

\* the units of the quantified windows, in the order of the alternation
Units == <<"day", "days", "week", "weeks", "month", "months", "year", "years">>

\* NUMBER_WORDS, in the order of its keys
NUMBER_WORDS ==
    <<"one", "two", "three", "four", "five", "six", "seven", "eight", "nine", "ten",
      "eleven", "twelve", "thirteen", "fourteen", "fifteen", "sixteen", "seventeen",
      "eighteen", "nineteen", "twenty">>

\* the first alternative of alts that s has at position i with whitespace
\* after it, 0 when none
AltSpaceAt(s, i, alts) ==
    IF \E a \in 1..Len(alts) : LitAt(s, i, alts[a]) /\ IsSpace(At(s, i + Len(alts[a])))
    THEN CHOOSE a \in 1..Len(alts) :
             /\ LitAt(s, i, alts[a]) /\ IsSpace(At(s, i + Len(alts[a])))
             /\ \A b \in 1..(a - 1) :
                    ~(LitAt(s, i, alts[b]) /\ IsSpace(At(s, i + Len(alts[b]))))
    ELSE 0

NoWindow == [to |-> 0, n |-> 0, u |-> ""]

\* the rest of a quantified window from position j, where the count starts:
\* (?P<n>\d{1,3})\s+(?P<u>day|...|years)\b, or the number word for the digits
WindowTail(s, j, words) ==
    LET a == IF words
             THEN (IF AltSpaceAt(s, j, NUMBER_WORDS) > 0
                   THEN Len(NUMBER_WORDS[AltSpaceAt(s, j, NUMBER_WORDS)]) ELSE 0)
             ELSE DigitRun(s, j, 3)
        w == SpaceRun(s, j + a)
        k == j + a + w
        u == AltAt(s, k, Units)
    IN  IF a >= 1 /\ w >= 1 /\ u > 0
        THEN [to |-> k + Len(Units[u]),
              n |-> IF words THEN AltSpaceAt(s, j, NUMBER_WORDS)
                    ELSE StrToInt(SubSeq(s, j, j + a - 1)),
              u |-> Units[u]]
        ELSE NoWindow

\* LAST_N_RE (words = FALSE) and LAST_WORD_N_RE (words = TRUE) at position i
\* of the lower-cased text, with the groups n (as a number) and u
LastN(s, i, words) ==
    LET k == AltSpaceAt(s, i, WindowWords)
    IN  IF Boundary(s, i) /\ k > 0
        THEN WindowTail(s, i + Len(WindowWords[k]) + SpaceRun(s, i + Len(WindowWords[k])),
                        words)
        ELSE NoWindow

\* IN_THE_LAST_N_RE and IN_THE_LAST_WORD_N_RE at position i
InTheLastN(s, i, words) ==
    LET a == i + 2 + SpaceRun(s, i + 2)
        b == a + 3 + SpaceRun(s, a + 3)
        c == b + 4 + SpaceRun(s, b + 4)
    IN  IF /\ Boundary(s, i)
           /\ LitAt(s, i, "in") /\ IsSpace(At(s, i + 2))
           /\ LitAt(s, a, "the") /\ IsSpace(At(s, a + 3))
           /\ LitAt(s, b, "last") /\ IsSpace(At(s, b + 4))
        THEN WindowTail(s, c, words)
        ELSE NoWindow

LAST_N_RE(s, i) == LastN(s, i, FALSE).to
IN_THE_LAST_N_RE(s, i) == InTheLastN(s, i, FALSE).to
LAST_WORD_N_RE(s, i) == LastN(s, i, TRUE).to
IN_THE_LAST_WORD_N_RE(s, i) == InTheLastN(s, i, TRUE).to

\* [m.start() for m in rex.finditer(s)]
FindIterPos(Rex(_, _), s) ==
    LET F[i \in 1..(Len(s) + 1)] ==
            IF i > Len(s) THEN << >>
            ELSE IF Rex(s, i) > 0 THEN <<i>> \o F[Rex(s, i)]
            ELSE F[i + 1]
    IN  F[1]

\* the mutant of WindowDays: calendar months of 31 days
WindowDays_calendar(n, u) ==
    IF LitAt(u, 1, "week") THEN n * 7
    ELSE IF LitAt(u, 1, "month") THEN n * 31
    ELSE IF LitAt(u, 1, "year") THEN n * 365
    ELSE n

\* the days of a window of n units
WindowDays(n, u) ==
    IF LitAt(u, 1, "week") THEN n * 7
    ELSE IF LitAt(u, 1, "month") THEN n * 30
    ELSE IF LitAt(u, 1, "year") THEN n * 365
    ELSE n

\* FORTNIGHT_RE = \b(?:last|past|previous)?\s*fortnight\b at position i of the
\* lower-cased text: first with the optional word, then without it
FORTNIGHT_RE(s, i) ==
    LET k == IF \E a \in 1..Len(WindowWords) : LitAt(s, i, WindowWords[a])
             THEN Len(WindowWords[CHOOSE a \in 1..Len(WindowWords) :
                                      LitAt(s, i, WindowWords[a])])
             ELSE 0
        j1 == i + k + SpaceRun(s, i + k)
        j0 == i + SpaceRun(s, i)
    IN  IF ~Boundary(s, i) THEN 0
        ELSE IF k > 0 /\ LitAt(s, j1, "fortnight") /\ Boundary(s, j1 + 9) THEN j1 + 9
        ELSE IF LitAt(s, j0, "fortnight") /\ Boundary(s, j0 + 9) THEN j0 + 9
        ELSE 0

\* the mutant of LazyToken: .+\b, the longest such text
LazyToken_greedy(s, j) ==
    LET ok(e) == /\ \A x \in j..e : Char(s, x) # "\n"
                 /\ Boundary(s, e + 1)
    IN  IF \E e \in j..Len(s) : ok(e)
        THEN CHOOSE e \in j..Len(s) : ok(e) /\ \A f \in (e + 1)..Len(s) : ~ok(f)
        ELSE 0

\* .+?\b from position j: the end of the shortest text of one character or
\* more, without a newline, that \b follows; 0 when there is none
LazyToken(s, j) ==
    LET ok(e) == /\ \A x \in j..e : Char(s, x) # "\n"
                 /\ Boundary(s, e + 1)
    IN  IF \E e \in j..Len(s) : ok(e)
        THEN CHOOSE e \in j..Len(s) : ok(e) /\ \A f \in j..(e - 1) : ~ok(f)
        ELSE 0

NoRange == [to |-> 0, kind |-> "", a |-> "", b |-> ""]

\* a two-sided alternative of RANGE_RE from position j, after its first word
\* and the whitespace: (?P<a>.+?)\s+(?:mid)\s+(?P<b>.+?) and the closing \b.
\* sl is the lower-cased text, s the text
RangePair(s, sl, j, kind, mids) ==
    LET tail(e) ==
            \* the position after the whole match when a ends at e
            LET w == SpaceRun(sl, e + 1)
                m == AltSpaceAt(sl, e + 1 + w, mids)
                k == e + 1 + w + (IF m > 0 THEN Len(mids[m]) ELSE 0)
                v == SpaceRun(sl, k)
            IN  IF w >= 1 /\ m > 0 /\ v >= 1 THEN LazyToken(sl, k + v) ELSE 0
        ok(e) == (\A x \in j..e : Char(sl, x) # "\n") /\ tail(e) > 0
    IN  IF \E e \in j..Len(sl) : ok(e)
        THEN LET e == CHOOSE e \in j..Len(sl) : ok(e) /\ \A f \in j..(e - 1) : ~ok(f)
                 w == SpaceRun(sl, e + 1)
                 m == AltSpaceAt(sl, e + 1 + w, mids)
                 k == e + 1 + w + Len(mids[m])
                 v == SpaceRun(sl, k)
             IN  [to |-> tail(e) + 1, kind |-> kind, a |-> SubSeq(s, j, e),
                  b |-> SubSeq(s, k + v, tail(e))]
        ELSE NoRange

\* a one-sided alternative of RANGE_RE from position j
RangeOne(s, sl, j, kind) ==
    IF LazyToken(sl, j) > 0
    THEN [to |-> LazyToken(sl, j) + 1, kind |-> kind, a |-> SubSeq(s, j, LazyToken(sl, j)),
          b |-> ""]
    ELSE NoRange

\* the first words of the alternatives of RANGE_RE
RangeWords == <<"between", "from", "since", "after", "before">>

\* RANGE_RE at position i, with the groups of the alternative that matched.
\* The whitespace after the first word is matched greedily; giving some of
\* it back to the group never lets a match succeed that failed.
RANGE_RE_groups(s, i) ==
    LET sl == StrLower(s)
        k == AltSpaceAt(sl, i, RangeWords)
        j == i + Len(RangeWords[k]) + SpaceRun(sl, i + Len(RangeWords[k]))
    IN  IF ~Boundary(sl, i) \/ k = 0 THEN NoRange
        ELSE IF k = 1 THEN RangePair(s, sl, j, "between", <<"and">>)
        ELSE IF k = 2 THEN RangePair(s, sl, j, "from", <<"to", "until">>)
        ELSE RangeOne(s, sl, j, RangeWords[k])

RANGE_RE(s, i) == RANGE_RE_groups(s, i).to

\* the characters of the texts compared, in the order of their code points
ASCII == " ,-/0123456789:ABCDEFGHIJKLMNOPQRSTUVWXYZabcdefghijklmnopqrstuvwxyz"

RECURSIVE StrGreater(_, _)
\* a > b of two str values: by code points, a proper prefix is smaller
StrGreater(a, b) ==
    IF Len(a) = 0 THEN FALSE
    ELSE IF Len(b) = 0 THEN TRUE
    ELSE IF Char(a, 1) = Char(b, 1)
    THEN StrGreater(SubSeq(a, 2, Len(a)), SubSeq(b, 2, Len(b)))
    ELSE IndexIn(Char(a, 1), ASCII) > IndexIn(Char(b, 1), ASCII)

\* the mutant of FillSlots: the later phrase overwrites the slots
FillSlots_overwrite(slots, s, e) == [start |-> s, end |-> e]

\* start = start or s; end = end or e
FillSlots(slots, s, e) ==
    [start |-> IF slots.start # None THEN slots.start ELSE s,
     end |-> IF slots.end # None THEN slots.end ELSE e]

\* the slots after the windows wins (pairs of ordinals) were offered in order
FillAll(slots, wins) ==
    LET F[i \in 0..Len(wins)] ==
            IF i = 0 THEN slots
            ELSE FillSlots(F[i - 1], OrdinalToIso(wins[i][1]), OrdinalToIso(wins[i][2]))
    IN  F[Len(wins)]

\* the windows of the relative phrases of q, in the order of the phrases
RelativeWindows(q, now) ==
    LET rel == FindIter(RELATIVE_RE, StrLower(q))
    IN  [i \in 1..Len(rel) |-> RelativeWindow(rel[i], now)]

\* the windows of the matches of a quantified pattern
WindowsOf(q, now, Rex(_, _), Groups(_, _)) ==
    LET sl == StrLower(q)
        pos == FindIterPos(Rex, sl)
    IN  [i \in 1..Len(pos) |->
            LET g == Groups(sl, pos[i])
            IN  <<now - WindowDays(g.n, g.u), now>>]

LastNDigits(s, i) == LastN(s, i, FALSE)
InTheLastNDigits(s, i) == InTheLastN(s, i, FALSE)
LastNWords(s, i) == LastN(s, i, TRUE)
InTheLastNWords(s, i) == InTheLastN(s, i, TRUE)

\* the slots after the branches of the explicit range stage, for the kind
\* of the alternative that matched and its normalised tokens a and b
RangeApply(slots, kind, a, b, today) ==
    IF kind \in {"between", "from"}
    THEN (IF a # None /\ b # None THEN [start |-> a, end |-> b] ELSE slots)
    ELSE IF kind = "since"
    THEN (IF a # None
          THEN [start |-> a, end |-> IF slots.end # None THEN slots.end ELSE today]
          ELSE slots)
    ELSE IF kind = "after"
    THEN (IF a # None THEN [slots EXCEPT !.start = a] ELSE slots)
    ELSE (IF a # None THEN [slots EXCEPT !.end = a] ELSE slots)

\* the tokens of the groups g are normalised
RangeNormalised(slots, g, today) ==
    RangeApply(slots, g.kind, _norm_date_token(g.a), _norm_date_token(g.b), today)

\* the slots after the explicit range stage; today is now.date().isoformat()
RangeSlotsAt(slots, q, i, today) ==
    IF i = 0 THEN slots ELSE RangeNormalised(slots, RANGE_RE_groups(q, i), today)

RangeSlots(slots, q, today) == RangeSlotsAt(slots, q, Search(RANGE_RE, q), today)

\* the standalone date candidates of q (a set) that normalise to a date
StandaloneDates(q) ==
    LET candidates == SeqElems(FindIter(ISO_DATE, q)) \cup SeqElems(FindIter(DMY_SLASH, q))
                          \cup SeqElems(FindIter(YMD_SLASH, q))
                          \cup SeqElems(FindIter(MON_D_COMMA_Y, q))
                          \cup SeqElems(FindIter(D_MON_Y, q))
    IN  {_norm_date_token(tok) : tok \in candidates} \ {None}

\* the mutant of ReturnsRuleResult: the rule result is never returned
ReturnsRuleResult_never(start, end) == FALSE

\* `if start or end: return start, end`
ReturnsRuleResult(start, end) == start # None \/ end # None

\* the interpreters: datetime.fromisoformat reads only the output of
\* isoformat() before Python 3.11, most ISO 8601 formats from 3.11 on
PythonVersions == {"3.10", "3.11"}

\* the time of day HH:MM
IsTime(t) ==
    /\ Len(t) = 5 /\ Char(t, 3) = ":"
    /\ AllDigits(SubSeq(t, 1, 2)) /\ AllDigits(SubSeq(t, 4, 5))
    /\ StrToInt(SubSeq(t, 1, 2)) < 24 /\ StrToInt(SubSeq(t, 4, 5)) < 60

\* the ordinal of the date of the text d as datetime.fromisoformat(d) reads
\* it, -1 when it raises: YYYY-MM-DD, YYYY-MM-DD?HH:MM, and YYYYMMDD from
\* Python 3.11 on
FromIsoFormat(d, py) ==
    IF Len(d) = 10 THEN IsoToOrdinal(d)
    ELSE IF Len(d) = 16 /\ IsTime(SubSeq(d, 12, 16)) THEN IsoToOrdinal(SubSeq(d, 1, 10))
    ELSE IF Len(d) = 8 /\ AllDigits(d) /\ py = "3.11"
    THEN (IF ValidYMD(StrToInt(SubSeq(d, 1, 4)), StrToInt(SubSeq(d, 5, 6)),
                      StrToInt(SubSeq(d, 7, 8)))
          THEN YMDToOrdinal(StrToInt(SubSeq(d, 1, 4)), StrToInt(SubSeq(d, 5, 6)),
                            StrToInt(SubSeq(d, 7, 8)))
          ELSE -1)
    ELSE -1

\* the mutant of _is_iso: every text is taken for a date
_is_iso_any(d, py) == d # None /\ d # ""

\* _is_iso of the LLM fallback
_is_iso(d, py) == d # None /\ d # "" /\ FromIsoFormat(d, py) # -1

\* ------------------------------------------------------------------------
\* The note tools of the MCP server (mcp_stdio.py). A path is the sequence
\* of its components from the root directory; a disk maps the paths that
\* exist to a directory, a file with its content, or a symbolic link with
\* the path it points to.
\* ------------------------------------------------------------------------

HOST_VAULT_PATH == <<"vaults">>

WRITE_VAULT == "Claude"

DirNode == [kind |-> "dir", content |-> "", target |-> << >>]
FileNode(content) == [kind |-> "file", content |-> content, target |-> << >>]
LinkNode(target) == [kind |-> "link", content |-> "", target |-> target]

\* the tail components of pathlib.Path(source): empty components and "."
\* are dropped, ".." stays
NotDotOrEmpty(c) == c # "" /\ c # "."
SourceNames(source) == SeqFilter(StrSplit(source, "/"), NotDotOrEmpty)

IsAbsolute(source) == Len(source) > 0 /\ Char(source, 1) = "/"

\* pathlib.Path(source).parts: the root "/" is the first part of an
\* absolute path
SourceParts(source) ==
    IF IsAbsolute(source) THEN <<"/">> \o SourceNames(source) ELSE SourceNames(source)

\* HOST_VAULT_PATH / source: an absolute source replaces the left side
JoinHost(source) ==
    IF IsAbsolute(source) THEN SourceNames(source) ELSE HOST_VAULT_PATH \o SourceNames(source)

Parent(path) == SubSeq(path, 1, Len(path) - 1)

RECURSIVE ResolveFrom(_, _, _)
\* Path.resolve(): the components rest are walked from the resolved path
\* done; ".." leaves the directory reached, a symbolic link is replaced by
\* its target, a component that does not exist is kept
ResolveFrom(disk, done, rest) ==
    IF rest = << >> THEN done
    ELSE IF Head(rest) = ".."
    THEN ResolveFrom(disk, IF done = << >> THEN << >> ELSE Parent(done), Tail(rest))
    ELSE LET p == Append(done, Head(rest))
         IN  IF p \in DOMAIN disk /\ disk[p].kind = "link"
             THEN ResolveFrom(disk, << >>, disk[p].target \o Tail(rest))
             ELSE ResolveFrom(disk, p, Tail(rest))

Resolve(disk, path) == ResolveFrom(disk, << >>, path)

\* path.relative_to(root) does not raise
IsRelativeTo(path, root) ==
    Len(path) >= Len(root) /\ SubSeq(path, 1, Len(root)) = root

NoPath == <<"?">>
Refused(error) == [error |-> error, path |-> NoPath]
Resolved(path) == [error |-> "", path |-> path]

\* _resolve_safe(source); HOST_VAULT_PATH is configured
_resolve_safe(disk, source) ==
    LET resolved == Resolve(disk, JoinHost(source))
    IN  IF IsRelativeTo(resolved, Resolve(disk, HOST_VAULT_PATH))
        THEN Resolved(resolved)
        ELSE Refused("path_traversal")

\* _check_write_vault(source): the error, "" for None
_check_write_vault(source) ==
    LET parts == SourceParts(source)
        vault == IF Len(parts) > 0 THEN parts[1] ELSE ""
    IN  IF vault # WRITE_VAULT THEN "write_not_permitted" ELSE ""

\* path.relative_to(write_root) does not raise
InWriteRoot(disk, path) ==
    IsRelativeTo(path, Resolve(disk, Append(HOST_VAULT_PATH, WRITE_VAULT)))

\* _resolve_write_safe(source)
_resolve_write_safe(disk, source) ==
    LET path == _resolve_safe(disk, source)
    IN  IF path.error # "" THEN path
        ELSE IF ~InWriteRoot(disk, path.path) THEN Refused("write_not_permitted")
        ELSE path

\* the proper ancestors of a path, the root excluded
Ancestors(path) == {SubSeq(path, 1, n) : n \in 1..(Len(path) - 1)}

\* path.mkdir(parents=True, exist_ok=True) raises: the path or one of its
\* ancestors is there and is no directory
MkdirRaises(disk, dir) ==
    \E a \in Ancestors(dir) \cup {dir} : a # << >> /\ a \in DOMAIN disk /\ disk[a].kind # "dir"

\* the disk after path.mkdir(parents=True, exist_ok=True) of a resolved path
Mkdir(disk, dir) ==
    LET made == {a \in Ancestors(dir) \cup {dir} : a # << >>}
    IN  [p \in DOMAIN disk \cup made |-> IF p \in DOMAIN disk THEN disk[p] ELSE DirNode]

\* the disk after path.write_text(content)
WriteText(disk, path, content) ==
    [p \in DOMAIN disk \cup {path} |-> IF p = path THEN FileNode(content) ELSE disk[p]]

\* the disk after os.rename(src, dst): the file, or the directory with
\* all that is below it, is at dst and no longer at src
Rename(disk, src, dst) ==
    LET moved == {p \in DOMAIN disk : IsRelativeTo(p, src)}
        to(p) == dst \o SubSeq(p, Len(src) + 1, Len(p))
        kept == DOMAIN disk \ moved
    IN  [q \in kept \cup {to(p) : p \in moved} |->
            IF \E p \in moved : to(p) = q
            THEN disk[CHOOSE p \in moved : to(p) = q]
            ELSE disk[q]]

Answer(disk, response) == [disk |-> disk, response |-> response]

\* the mutant of create_note: the note is written before overwrite and the
\* lint errors are looked at
create_note_writes_first(disk, source, content, overwrite, lint_errors) ==
    LET path == _resolve_write_safe(disk, source)
        existed == path.path \in DOMAIN disk
    IN  IF _check_write_vault(source) # "" THEN Answer(disk, _check_write_vault(source))
        ELSE IF path.error # "" THEN Answer(disk, path.error)
        ELSE IF MkdirRaises(disk, Parent(path.path)) THEN Answer(disk, "raised FileExistsError")
        ELSE IF existed /\ disk[path.path].kind = "dir"
        THEN Answer(disk, "raised IsADirectoryError")
        ELSE Answer(WriteText(Mkdir(disk, Parent(path.path)), path.path, content),
                    IF existed /\ ~overwrite THEN "already_exists"
                    ELSE IF lint_errors THEN "validation_failed"
                    ELSE IF existed THEN "overwritten" ELSE "created")

\* create_note(source, content, overwrite); lint_errors: _run_lint found
\* errors in the content
create_note(disk, source, content, overwrite, lint_errors) ==
    LET path == _resolve_write_safe(disk, source)
        existed == path.path \in DOMAIN disk
    IN  IF _check_write_vault(source) # "" THEN Answer(disk, _check_write_vault(source))
        ELSE IF path.error # "" THEN Answer(disk, path.error)
        ELSE IF existed /\ ~overwrite THEN Answer(disk, "already_exists")
        ELSE IF lint_errors THEN Answer(disk, "validation_failed")
        ELSE IF MkdirRaises(disk, Parent(path.path)) THEN Answer(disk, "raised FileExistsError")
        ELSE IF existed /\ disk[path.path].kind = "dir"
        THEN Answer(disk, "raised IsADirectoryError")
        ELSE Answer(WriteText(Mkdir(disk, Parent(path.path)), path.path, content),
                    IF existed THEN "overwritten" ELSE "created")

\* the longest content a note of the model grows to
MaxContentLen == 1

\* update_note(source, content, mode)
update_note(disk, source, content, mode, lint_errors) ==
    LET path == _resolve_write_safe(disk, source)
    IN  IF _check_write_vault(source) # "" THEN Answer(disk, _check_write_vault(source))
        ELSE IF path.error # "" THEN Answer(disk, path.error)
        ELSE IF path.path \notin DOMAIN disk THEN Answer(disk, "not_found")
        ELSE IF mode \notin {"overwrite", "append"} THEN Answer(disk, "invalid_mode")
        ELSE IF lint_errors THEN Answer(disk, "validation_failed")
        ELSE IF disk[path.path].kind = "dir" THEN Answer(disk, "raised IsADirectoryError")
        ELSE IF mode = "overwrite" THEN Answer(WriteText(disk, path.path, content), "ok")
        ELSE Answer(WriteText(disk, path.path, disk[path.path].content \o content), "ok")

\* shutil.move(src, dst) of a resolved src after the parent of dst was
\* made: into dst when dst is a directory, else onto dst
Move(disk, src, dst) ==
    LET at == Resolve(disk, dst)
        into == at \in DOMAIN disk /\ disk[at].kind = "dir"
        real_dst == IF into THEN Append(at, src[Len(src)]) ELSE at
    IN  IF into /\ real_dst \in DOMAIN disk THEN Answer(disk, "raised Error")
        ELSE IF disk[src].kind = "dir" /\ IsRelativeTo(real_dst, src)
        THEN Answer(disk, "raised Error")
        ELSE IF disk[src].kind = "dir" /\ real_dst \in DOMAIN disk
        THEN Answer(disk, "raised Error")
        ELSE Answer(Rename(disk, src, real_dst), "ok")

\* delete_note(source)
delete_note(disk, source) ==
    LET path == _resolve_write_safe(disk, source)
        vault_root == Resolve(disk, Append(HOST_VAULT_PATH, WRITE_VAULT))
        rel_within_vault == SubSeq(path.path, Len(vault_root) + 1, Len(path.path))
        trash_path == vault_root \o <<".trash">> \o rel_within_vault
        trash_parent == Resolve(disk, Parent(trash_path))
    IN  IF _check_write_vault(source) # "" THEN Answer(disk, _check_write_vault(source))
        ELSE IF path.error # "" THEN Answer(disk, path.error)
        ELSE IF path.path \notin DOMAIN disk THEN Answer(disk, "not_found")
        ELSE IF MkdirRaises(disk, trash_parent) THEN Answer(disk, "raised FileExistsError")
        ELSE Move(Mkdir(disk, trash_parent), path.path, trash_path)

\* the trash path delete_note returns with ok, below HOST_VAULT_PATH
delete_note_trash(disk, source) ==
    LET path == _resolve_write_safe(disk, source)
        vault_root == Resolve(disk, Append(HOST_VAULT_PATH, WRITE_VAULT))
    IN  <<WRITE_VAULT, ".trash">> \o SubSeq(path.path, Len(vault_root) + 1, Len(path.path))

\* ------------------------------------------------------------------------
\* State
\* ------------------------------------------------------------------------

VARIABLES
    _index_lock,      \* threading.Lock: 0 when free, else the holding thread
    _index_running,   \* the module's running flag
    _last_index,      \* the last-result snapshot (a dict)
    threads,          \* the worker threads started by the handlers
    clock,            \* time.time()
    response,         \* the answer of the last reindex request handled
    retr,             \* the call of _retrieve being executed
    parse_dates,      \* the last GET /debug/parse-dates request and its answer
    dp,               \* the call of DateParser.parse being executed
    ndt,              \* the last call of DateParser._norm_date_token
    ent,              \* the last call of extract_name_terms
    fs,               \* the disk the note tools work on
    note,             \* the last call of a note tool and its answer
    trashed,          \* the notes delete_note answered ok for: trash path, content
    _CHANGED,         \* the watcher's set of changed vault-relative paths
    timers,           \* the threading.Timer objects DebouncedReindex has started
    vault_md,         \* the .md files below settings.vault_path
    index_state,      \* the "files" entry of index_state.json
    collection,       \* the ids of the chunks in the Chroma collection
    bi                \* the call of build_index or build_index_files being executed

reindexVars == <<_index_lock, _index_running, _last_index, threads, clock, response>>

retrieveVars == <<retr, parse_dates>>

parserVars == <<dp, ndt, ent>>

notesVars == <<fs, note, trashed>>

watchVars == <<_CHANGED, timers>>

indexVars == <<vault_md, index_state, collection, bi>>

vars == <<_index_lock, _index_running, _last_index, threads, clock, response,
          retr, parse_dates, dp, ndt, ent, fs, note, trashed, _CHANGED, timers,
          vault_md, index_state, collection, bi>>

\* ------------------------------------------------------------------------
\* Reindex endpoints and workers (rag_server.py)
\* ------------------------------------------------------------------------

Threads == 1..MaxThreads

\* the lists of vault-relative paths a request body or a scan may carry
FileLists == {<< >>, <<"a.md">>}

\* n and e are the worker's locals: the build's return value (-1 before it
\* returns) and the text of the exception it raised
NoThread == [pc |-> "idle", target |-> None, files |-> << >>, n |-> -1, e |-> ""]

NoResponse == [endpoint |-> None, status |-> None, queued |-> 0, inflight |-> FALSE]

LastIndexInit ==
    [ok |-> FALSE, started |-> 0, finished |-> 0, chunks |-> 0,
     error |-> "", mode |-> "", files |-> << >>]

\* a build (build_index or build_index_files) is executing
BuildInFlight == \E t \in Threads : threads[t].pc = "build"

\* threading.Thread(target=..., args=...).start()
StartThread(target, files) ==
    \E t \in Threads :
        /\ threads[t].pc = "idle"
        /\ \A u \in Threads : u < t => threads[u].pc # "idle"
        /\ threads' = [threads EXCEPT ![t] =
                          [pc |-> "acquire", target |-> target, files |-> files,
                           n |-> -1, e |-> ""]]

\* POST /reindex
reindex ==
    /\ IF _index_running
       THEN /\ response' = [endpoint |-> "reindex", status |-> "running",
                            queued |-> 0, inflight |-> BuildInFlight]
            /\ UNCHANGED threads
       ELSE /\ StartThread("full", << >>)
            /\ response' = [endpoint |-> "reindex", status |-> "started",
                            queued |-> 0, inflight |-> BuildInFlight]
    /\ UNCHANGED <<_index_lock, _index_running, _last_index, clock>>
    /\ UNCHANGED <<retrieveVars, parserVars, notesVars, watchVars, indexVars>>

\* POST /reindex/files
reindex_files ==
    \E files \in FileLists :
        /\ IF _index_running
           THEN /\ response' = [endpoint |-> "reindex_files", status |-> "running",
                                queued |-> 0, inflight |-> BuildInFlight]
                /\ UNCHANGED threads
           ELSE /\ StartThread("files", files)
                /\ response' = [endpoint |-> "reindex_files", status |-> "started",
                                queued |-> Len(files), inflight |-> BuildInFlight]
        /\ UNCHANGED <<_index_lock, _index_running, _last_index, clock>>
        /\ UNCHANGED <<retrieveVars, parserVars, notesVars, watchVars, indexVars>>

\* POST /reindex/scan: files is what _scan_changed_files() returns
reindex_scan ==
    \E files \in FileLists :
        /\ IF files = << >>
           THEN /\ response' = [endpoint |-> "reindex_scan", status |-> "ok",
                                queued |-> 0, inflight |-> BuildInFlight]
                /\ UNCHANGED threads
           ELSE /\ StartThread("files", files)
                /\ response' = [endpoint |-> "reindex_scan", status |-> "ok",
                                queued |-> Len(files), inflight |-> BuildInFlight]
        /\ UNCHANGED <<_index_lock, _index_running, _last_index, clock>>
        /\ UNCHANGED <<retrieveVars, parserVars, notesVars, watchVars, indexVars>>

\* the mutant of WorkerMayStart: the worker does not look at the flag
WorkerMayStart_NoCheck(running) == TRUE

\* `if _index_running: return` of both workers
WorkerMayStart(running) == ~running

\* `with _index_lock:` entered
WorkerAcquire(t) ==
    /\ threads[t].pc = "acquire"
    /\ _index_lock = 0
    /\ _index_lock' = t
    /\ threads' = [threads EXCEPT ![t].pc = "check"]
    /\ UNCHANGED <<_index_running, _last_index, clock, response>>
    /\ UNCHANGED <<retrieveVars, parserVars, notesVars, watchVars, indexVars>>

\* the body of the with block, and the lock's release on leaving it
WorkerCheck(t) ==
    /\ threads[t].pc = "check"
    /\ _index_lock = t
    /\ _index_lock' = 0
    /\ IF WorkerMayStart(_index_running)
       THEN /\ _index_running' = TRUE
            /\ threads' = [threads EXCEPT ![t].pc = "init_last"]
       ELSE /\ threads' = [threads EXCEPT ![t].pc = "dropped"]
            /\ UNCHANGED _index_running
    /\ UNCHANGED <<_last_index, clock, response>>
    /\ UNCHANGED <<retrieveVars, parserVars, notesVars, watchVars, indexVars>>

\* _last_index = {"ok": False, "started": time.time(), ...}
WorkerInitLast(t) ==
    /\ threads[t].pc = "init_last"
    /\ clock' = clock + 1
    /\ _last_index' = [ok |-> FALSE, started |-> clock', finished |-> 0, chunks |-> 0,
                       error |-> "", mode |-> threads[t].target,
                       files |-> threads[t].files]
    /\ threads' = [threads EXCEPT ![t].pc = "build"]
    /\ UNCHANGED <<_index_lock, _index_running, response>>
    /\ UNCHANGED <<retrieveVars, parserVars, notesVars, watchVars, indexVars>>

\* n = build_index() or build_index_files(files) returns; ok and chunks are set
WorkerBuildReturns(t) ==
    /\ threads[t].pc = "build"
    /\ \E n \in 0..MaxChunks :
          /\ _last_index' = [_last_index EXCEPT !.ok = TRUE, !.chunks = n]
          /\ threads' = [threads EXCEPT ![t].pc = "finally", ![t].n = n]
    /\ UNCHANGED <<_index_lock, _index_running, clock, response>>
    /\ UNCHANGED <<retrieveVars, parserVars, notesVars, watchVars, indexVars>>

\* str(e) of the exceptions a build may raise
BuildErrors == {"disk full"}

\* the build raises; the except clause stores str(e)
WorkerBuildRaises(t) ==
    /\ threads[t].pc = "build"
    /\ \E e \in BuildErrors :
          /\ _last_index' = [_last_index EXCEPT !.error = e]
          /\ threads' = [threads EXCEPT ![t].pc = "finally", ![t].e = e]
    /\ UNCHANGED <<_index_lock, _index_running, clock, response>>
    /\ UNCHANGED <<retrieveVars, parserVars, notesVars, watchVars, indexVars>>

\* finally: _last_index["finished"] = time.time()
WorkerFinished(t) ==
    /\ threads[t].pc = "finally"
    /\ clock' = clock + 1
    /\ _last_index' = [_last_index EXCEPT !.finished = clock']
    /\ threads' = [threads EXCEPT ![t].pc = "acquire_clear"]
    /\ UNCHANGED <<_index_lock, _index_running, response>>
    /\ UNCHANGED <<retrieveVars, parserVars, notesVars, watchVars, indexVars>>

\* finally: `with _index_lock:` entered
WorkerAcquireClear(t) ==
    /\ threads[t].pc = "acquire_clear"
    /\ _index_lock = 0
    /\ _index_lock' = t
    /\ threads' = [threads EXCEPT ![t].pc = "clear"]
    /\ UNCHANGED <<_index_running, _last_index, clock, response>>
    /\ UNCHANGED <<retrieveVars, parserVars, notesVars, watchVars, indexVars>>

\* the mutant of ClearedFlag: the flag keeps its value
ClearedFlag_kept(running) == running

\* finally: `_index_running = False`
ClearedFlag(running) == FALSE

\* finally: _index_running = False, and the lock's release; the thread ends
\* and its locals with it
WorkerClear(t) ==
    /\ threads[t].pc = "clear"
    /\ _index_lock = t
    /\ _index_lock' = 0
    /\ _index_running' = ClearedFlag(_index_running)
    /\ threads' = [threads EXCEPT ![t].pc = "done", ![t].n = -1, ![t].e = ""]
    /\ UNCHANGED <<_last_index, clock, response>>
    /\ UNCHANGED <<retrieveVars, parserVars, notesVars, watchVars, indexVars>>

ReindexInit ==
    /\ _index_lock = 0
    /\ _index_running = FALSE
    /\ _last_index = LastIndexInit
    /\ threads = [t \in Threads |-> NoThread]
    /\ clock = 0
    /\ response = NoResponse

ReindexNext ==
    \/ reindex
    \/ reindex_files
    \/ reindex_scan
    \/ \E t \in Threads : WorkerAcquire(t)
    \/ \E t \in Threads : WorkerCheck(t)
    \/ \E t \in Threads : WorkerInitLast(t)
    \/ \E t \in Threads : WorkerBuildReturns(t)
    \/ \E t \in Threads : WorkerBuildRaises(t)
    \/ \E t \in Threads : WorkerFinished(t)
    \/ \E t \in Threads : WorkerAcquireClear(t)
    \/ \E t \in Threads : WorkerClear(t)

\* ------------------------------------------------------------------------
\* Retrieval: _retrieve and GET /debug/parse-dates (rag_server.py)
\* ------------------------------------------------------------------------

\* largest k of a call
MaxK == 2

\* most chunks one similarity search returns
MaxResults == 2

\* what vs.similarity_search may return: ranked chunks, none twice. Every
\* search of _retrieve asks for 50 chunks or more, so k does not cut these.
Responses ==
    {r \in UNION {[1..n -> ChunkIds] : n \in 0..MaxResults} :
        \A i, j \in 1..Len(r) : i # j => r[i] # r[j]}

RetrIdle ==
    [pc |-> "idle", q |-> "", k |-> 0, start |-> None, end |-> None,
     iso_aug |-> << >>, name_terms |-> << >>, calls |-> << >>,
     candidates |-> << >>, dated |-> << >>, sec |-> << >>, result |-> << >>]

Call(query, k, filter, raised) ==
    [query |-> query, k |-> k, filter |-> filter, raised |-> raised]

\* The derived values of a call, evaluated once for every question and
\* parser result of the model.

\* name_terms = extract_name_terms(q)
NameTermsOf == [q \in Queries |-> extract_name_terms(q)]

\* the augmented query
QAugOf ==
    [q \in Queries, t \in DateParserTriples |->
        q_aug(q, NameTermsOf[q], t[1], t[2], t[3])]

WantsRecentOf ==
    [q \in Queries, t \in DateParserTriples |-> wants_recent(q, t[1], t[2], t[3])]

\* the chunks _in_range accepts, by bounds
InRangeIds ==
    [r \in DateParserResults |->
        UNION {IF _in_range(Meta(d), r[1], r[2]) THEN {d} ELSE {} : d \in ChunkIds}]

\* the chunks _entities_match accepts, by question
NameMatchIds ==
    [q \in Queries |->
        UNION {IF _entities_match(Meta(d), NameTermsOf[q]) THEN {d} ELSE {}
                   : d \in ChunkIds}]

\* the query of the secondary search
sec_q(name_terms) == "Names: " \o StrJoin(", ", name_terms)

SecQOf == [q \in Queries |-> sec_q(NameTermsOf[q])]

RetrTriple == <<retr.start, retr.end, retr.iso_aug>>

\* the values of the call in progress
RetrQAug == QAugOf[retr.q, RetrTriple]
RetrWants == WantsRecentOf[retr.q, RetrTriple]
RetrPool == pool(retr.k, retr.name_terms, retr.start, retr.end)
RetrInRange == InRangeIds[<<retr.start, retr.end>>]
RetrNameMatch == NameMatchIds[retr.q]

\* [d for d in docs if d in keep]
Only(docs, keep) ==
    LET Keep(d) == d \in keep
    IN  SeqFilter(docs, Keep)

\* steps 4 and the return of _retrieve
Finish(worklist, wants, k) == Truncate(_sort_by_recent(worklist, wants), k)

NoParseDates == [q |-> None, parsed |-> << >>, status |-> 0, body |-> None]

\* _retrieve(q, k) is called: the date range and the name terms are derived.
\* parsed is what DateParser().parse returns to _parse_date_range.
RetrieveStart ==
    /\ retr.pc = "idle"
    /\ \E q \in Queries, k \in 0..MaxK, parsed \in DateParserResults \cup DateParserTriples :
          LET r == _parse_date_range(parsed)
          IN  IF r = ValueError
              THEN retr' = [RetrIdle EXCEPT !.pc = "raised", !.q = q, !.k = k]
              ELSE retr' = [RetrIdle EXCEPT
                               !.pc = IF r[1] # None \/ r[2] # None
                                      THEN "filtered" ELSE "wide",
                               !.q = q, !.k = k,
                               !.start = r[1], !.end = r[2], !.iso_aug = r[3],
                               !.name_terms = NameTermsOf[q]]
    /\ parse_dates' = NoParseDates
    /\ UNCHANGED <<reindexVars, parserVars, notesVars, watchVars, indexVars>>

\* the search with the range filter returns
FilteredSearchReturns ==
    /\ retr.pc = "filtered"
    /\ LET calls == Append(retr.calls,
                         Call(RetrQAug, Max(retr.k * 10, 200),
                              where(retr.start, retr.end), FALSE))
       IN  \E docs \in Responses :
          LET in_range == Only(docs, RetrInRange)
          IN  IF Len(in_range) > 0
              THEN retr' = [retr EXCEPT !.pc = "done", !.calls = calls,
                                        !.result = Truncate(in_range, retr.k)]
              ELSE retr' = [retr EXCEPT !.pc = "wide", !.calls = calls]
    /\ UNCHANGED parse_dates
    /\ UNCHANGED <<reindexVars, parserVars, notesVars, watchVars, indexVars>>

\* the search with the range filter raises
FilteredSearchRaises ==
    /\ retr.pc = "filtered"
    /\ retr' = [retr EXCEPT
                   !.pc = IF retr.start # None /\ retr.end # None /\ retr.start = retr.end
                          THEN "equality" ELSE "wide",
                   !.calls = Append(retr.calls,
                                Call(RetrQAug, Max(retr.k * 10, 200),
                                     where(retr.start, retr.end), TRUE))]
    /\ UNCHANGED parse_dates
    /\ UNCHANGED <<reindexVars, parserVars, notesVars, watchVars, indexVars>>

\* the single-day search with filter={"entry_date": start} returns
EqualitySearchReturns ==
    /\ retr.pc = "equality"
    /\ LET calls == Append(retr.calls,
                         Call(RetrQAug, Max(retr.k * 3, 50), EqFilter(retr.start), FALSE))
       IN  \E docs \in Responses :
          LET in_range == Only(docs, RetrInRange)
          IN  IF Len(in_range) > 0
              THEN retr' = [retr EXCEPT !.pc = "done", !.calls = calls,
                                        !.result = Truncate(in_range, retr.k)]
              ELSE retr' = [retr EXCEPT !.pc = "wide", !.calls = calls]
    /\ UNCHANGED parse_dates
    /\ UNCHANGED <<reindexVars, parserVars, notesVars, watchVars, indexVars>>

\* the single-day search raises: pass
EqualitySearchRaises ==
    /\ retr.pc = "equality"
    /\ retr' = [retr EXCEPT
                   !.pc = "wide",
                   !.calls = Append(retr.calls,
                                Call(RetrQAug, Max(retr.k * 3, 50), EqFilter(retr.start), TRUE))]
    /\ UNCHANGED parse_dates
    /\ UNCHANGED <<reindexVars, parserVars, notesVars, watchVars, indexVars>>

\* the mutant of NeedsNameSearch: the secondary search is never made
NeedsNameSearch_never(worklist, name_terms) == FALSE

\* `if not worklist and name_terms`
NeedsNameSearch(worklist, name_terms) == Len(worklist) = 0 /\ Len(name_terms) > 0

\* the wide-net search returns; date filter, name filter, and either the
\* secondary search is due or the worklist is sorted, cut and returned
WideSearchReturns ==
    /\ retr.pc = "wide"
    /\ LET calls == Append(retr.calls, Call(RetrQAug, RetrPool, NoFilter, FALSE))
       IN  \E candidates \in Responses :
          LET dated == IF retr.start # None \/ retr.end # None
                       THEN Only(candidates, RetrInRange) ELSE candidates
              worklist == IF Len(retr.name_terms) > 0
                          THEN Only(dated, RetrNameMatch) ELSE dated
          IN  IF NeedsNameSearch(worklist, retr.name_terms)
              THEN retr' = [retr EXCEPT !.pc = "retry", !.calls = calls,
                                        !.candidates = candidates, !.dated = dated]
              ELSE retr' = [retr EXCEPT !.pc = "done", !.calls = calls,
                                        !.candidates = candidates, !.dated = dated,
                                        !.result = Finish(worklist, RetrWants, retr.k)]
    /\ UNCHANGED parse_dates
    /\ UNCHANGED <<reindexVars, parserVars, notesVars, watchVars, indexVars>>

\* the wide-net search raises: _retrieve does not catch it
WideSearchRaises ==
    /\ retr.pc = "wide"
    /\ retr' = [retr EXCEPT
                   !.pc = "raised",
                   !.calls = Append(retr.calls, Call(RetrQAug, RetrPool, NoFilter, TRUE))]
    /\ UNCHANGED parse_dates
    /\ UNCHANGED <<reindexVars, parserVars, notesVars, watchVars, indexVars>>

\* the secondary, name-focused search returns
NameSearchReturns ==
    /\ retr.pc = "retry"
    /\ LET calls == Append(retr.calls, Call(SecQOf[retr.q], RetrPool, NoFilter, FALSE))
       IN  \E sec \in Responses :
              retr' = [retr EXCEPT
                          !.pc = "done", !.calls = calls, !.sec = sec,
                          !.result = Finish(Only(sec, RetrNameMatch), RetrWants, retr.k)]
    /\ UNCHANGED parse_dates
    /\ UNCHANGED <<reindexVars, parserVars, notesVars, watchVars, indexVars>>

\* the secondary search raises: sec = []
NameSearchRaises ==
    /\ retr.pc = "retry"
    /\ retr' = [retr EXCEPT
                   !.pc = "done",
                   !.calls = Append(retr.calls,
                                Call(SecQOf[retr.q], RetrPool, NoFilter, TRUE)),
                   !.sec = << >>,
                   !.result = Finish(Only(<< >>, RetrNameMatch), RetrWants, retr.k)]
    /\ UNCHANGED parse_dates
    /\ UNCHANGED <<reindexVars, parserVars, notesVars, watchVars, indexVars>>

\* the caller has the result (or the exception); the next call may come.
\* The model handles one request of the query and debug endpoints at a
\* time: they share no state.
RetrieveEnds ==
    /\ retr.pc \in {"done", "raised"}
    /\ retr' = RetrIdle
    /\ UNCHANGED parse_dates
    /\ UNCHANGED <<reindexVars, parserVars, notesVars, watchVars, indexVars>>

\* GET /debug/parse-dates?q=...; parsed is what DateParser().parse returns.
\* An exception leaving the handler is answered with status 500.
debug_parse_dates ==
    /\ retr.pc = "idle"
    /\ \E q \in Queries, parsed \in DateParserResults :
          LET r == _parse_date_range(parsed)
          IN  parse_dates' =
                  IF r = ValueError
                  THEN [q |-> q, parsed |-> parsed, status |-> 500,
                        body |-> "Internal Server Error"]
                  ELSE [q |-> q, parsed |-> parsed, status |-> 200,
                        body |-> [start |-> r[1], end |-> r[2], aug |-> r[3]]]
    /\ UNCHANGED retr
    /\ UNCHANGED <<reindexVars, parserVars, notesVars, watchVars, indexVars>>

RetrieveInit ==
    /\ retr = RetrIdle
    /\ parse_dates = NoParseDates

RetrieveNext ==
    \/ RetrieveStart
    \/ FilteredSearchReturns
    \/ FilteredSearchRaises
    \/ EqualitySearchReturns
    \/ EqualitySearchRaises
    \/ WideSearchReturns
    \/ WideSearchRaises
    \/ NameSearchReturns
    \/ NameSearchRaises
    \/ RetrieveEnds
    \/ debug_parse_dates

\* ------------------------------------------------------------------------
\* Calls of the parsers: DateParser (date_parser.py), extract_name_terms
\* (name_parser.py)
\* ------------------------------------------------------------------------

DpIdle == [pc |-> "idle", q |-> "", tz |-> "", now |-> 0, start |-> None, end |-> None,
           set_by |-> << >>, llm |-> None, py |-> None, obj |-> None, result |-> None]


NdtIdle == [pc |-> "idle", fmt |-> None, y |-> 0, m |-> 0, d |-> 0,
            token |-> "", result |-> None]

EntIdle == [pc |-> "idle", q |-> "", result |-> << >>]

\* no call was made yet. The parsers keep nothing between two calls (every
\* call works on its arguments and its locals alone), so one call is
\* followed from its start to its end.
ParsersIdle == dp = DpIdle /\ ndt = NdtIdle /\ ent = EntIdle

\* the date token formats _norm_date_token accepts
TokenFormats == {"YYYY-MM-DD", "YYYY/M/D", "D/M/YYYY", "Mon D, YYYY", "D Mon YYYY",
                 "Month YYYY"}

MonthAbbr == <<"Jan", "Feb", "Mar", "Apr", "May", "Jun", "Jul", "Aug", "Sep", "Oct",
               "Nov", "Dec">>

MonthName == <<"January", "February", "March", "April", "May", "June", "July",
               "August", "September", "October", "November", "December">>

\* the years, months and days of the tokens tried
TokenYears == {0, 2024, 2025}
TokenMonths == {1, 2, 4, 12, 13}
TokenDays == {0, 1, 29, 30, 31, 32}

\* a month the format can write: the formats with a month name have no
\* thirteenth month
MonthWritable(fmt, m) ==
    fmt \in {"YYYY-MM-DD", "YYYY/M/D", "D/M/YYYY"} \/ m \in 1..12

\* the token of the format for a year, month and day
FormatToken(fmt, y, m, d) ==
    CASE fmt = "YYYY-MM-DD" -> IsoFormat(y, m, d)
      [] fmt = "YYYY/M/D" -> ZeroFill(IntToStr(y), 4) \o "/" \o IntToStr(m) \o "/" \o IntToStr(d)
      [] fmt = "D/M/YYYY" -> IntToStr(d) \o "/" \o IntToStr(m) \o "/" \o ZeroFill(IntToStr(y), 4)
      [] fmt = "Mon D, YYYY" -> MonthAbbr[m] \o " " \o IntToStr(d) \o ", " \o ZeroFill(IntToStr(y), 4)
      [] fmt = "D Mon YYYY" -> IntToStr(d) \o " " \o MonthAbbr[m] \o " " \o ZeroFill(IntToStr(y), 4)
      [] fmt = "Month YYYY" -> MonthName[m] \o " " \o ZeroFill(IntToStr(y), 4)

\* the time zone names of the calls; ZoneInfo finds the first two
TimeZones == {"UTC", "Europe/London", "Mars/Phobos"}
KnownZones == {"UTC", "Europe/London"}

\* the days the calls are made on: a Wednesday in the middle of a month, the
\* first of March of a leap year, and New Year's Day
Todays == {"2025-01-15", "2024-03-01", "2025-01-01"}

\* the counts and the units of the quantified windows asked for
Counts == {[text |-> "1", value |-> 1], [text |-> "12", value |-> 12],
           [text |-> "999", value |-> 999], [text |-> "1000", value |-> 1000],
           [text |-> "three", value |-> 3], [text |-> "Fourteen", value |-> 14],
           [text |-> "twenty", value |-> 20]}
UnitsAsked == {[text |-> "day", days |-> 1], [text |-> "Weeks", days |-> 7],
               [text |-> "month", days |-> 30], [text |-> "years", days |-> 365]}
WindowsAsked == {"last", "Past", "previous", "in the last"}

\* the questions with one quantified window, with the count and the days
\* of the unit they were written from
QuantQueries ==
    {[q |-> "notes " \o w \o " " \o n.text \o " " \o u.text, n |-> n.value, days |-> u.days] :
        w \in WindowsAsked, n \in Counts, u \in UnitsAsked}

\* the other questions: relative phrases, several phrases, ranges, dates
\* in the text, and questions no rule reads
OtherQueries ==
    {"today", "Yesterday", "this week", "last week", "this month", "last month",
     "this year", "last year", "recent", "recently", "lately", "just",
     "today yesterday", "last year today", "yesterday last 3 days",
     "last 3 days in the last two weeks", "past two weeks yesterday",
     "last week fortnight", "fortnight", "last fortnight 15/01/2025",
     "today between 2025-01-10 and 2025-01-12", "recent since 2025-01-10",
     "today from Jan 5, 2025 to Jan 9, 2025", "yesterday before Oct 2025",
     "lately after 2025/1/5", "today 2025-01-10",
     "between 2025-01-10 and 2025-01-05", "since 2025-01-10", "before Oct 2025",
     "from 2025-01-05 to 2025-01-09", "from 2025-01-05 until 2025-01-09",
     "after 2025-01-10", "before 2025-01-10",
     "2025-01-10", "2025-01-20 2025-01-10", "Jan 15, 2025 15/01/2024",
     "5 Jan 2025", "2025-02-30", "32/01/2025", "2025/1/5",
     "notes", "next week", "a while ago", "last 0 days"}

DpQueries == {x.q : x \in QuantQueries} \cup OtherQueries

\* parse(q, tz_name) is called: ZoneInfo(tz_name) raises for a name it does
\* not find, else now = datetime.now(tz) and both slots are None
ParseStart ==
    /\ ParsersIdle
    /\ \E q \in DpQueries, tz \in TimeZones, today \in Todays :
          dp' = [DpIdle EXCEPT !.pc = IF tz \in KnownZones THEN "relative" ELSE "raised",
                               !.q = q, !.tz = tz, !.now = IsoToOrdinal(today)]
    /\ ndt' = NdtIdle
    /\ ent' = EntIdle
    /\ UNCHANGED <<reindexVars, retrieveVars, notesVars, watchVars, indexVars>>

DpSlots == [start |-> dp.start, end |-> dp.end]

\* parse after a rule stage that leaves the slots and hands over to next
StageEnd(stage, slots, next) ==
    [dp EXCEPT !.pc = next, !.start = slots.start, !.end = slots.end,
               !.set_by = IF slots.start # dp.start \/ slots.end # dp.end
                          THEN Append(dp.set_by, stage) ELSE dp.set_by]

\* the relative phrases
RelativeStage ==
    /\ dp.pc = "relative"
    /\ dp' = StageEnd("relative", FillAll(DpSlots, RelativeWindows(dp.q, dp.now)),
                      "quantified")
    /\ UNCHANGED <<ndt, ent, reindexVars, retrieveVars, notesVars, watchVars, indexVars>>

\* the quantified windows with digits
QuantifiedStage ==
    /\ dp.pc = "quantified"
    /\ dp' = StageEnd("quantified",
                      FillAll(DpSlots,
                              WindowsOf(dp.q, dp.now, LAST_N_RE, LastNDigits)
                                  \o WindowsOf(dp.q, dp.now, IN_THE_LAST_N_RE,
                                               InTheLastNDigits)),
                      "words")
    /\ UNCHANGED <<ndt, ent, reindexVars, retrieveVars, notesVars, watchVars, indexVars>>

\* the quantified windows with number words
WordsStage ==
    /\ dp.pc = "words"
    /\ dp' = StageEnd("words",
                      FillAll(DpSlots,
                              WindowsOf(dp.q, dp.now, LAST_WORD_N_RE, LastNWords)
                                  \o WindowsOf(dp.q, dp.now, IN_THE_LAST_WORD_N_RE,
                                               InTheLastNWords)),
                      "fortnight")
    /\ UNCHANGED <<ndt, ent, reindexVars, retrieveVars, notesVars, watchVars, indexVars>>

\* the fortnight
FortnightStage ==
    /\ dp.pc = "fortnight"
    /\ dp' = StageEnd("fortnight",
                      IF Search(FORTNIGHT_RE, StrLower(dp.q)) > 0
                      THEN FillAll(DpSlots, <<(<<dp.now - 14, dp.now>>)>>)
                      ELSE DpSlots,
                      "range")
    /\ UNCHANGED <<ndt, ent, reindexVars, retrieveVars, notesVars, watchVars, indexVars>>

\* the explicit ranges
RangeStage ==
    /\ dp.pc = "range"
    /\ dp' = StageEnd("range", RangeSlots(DpSlots, dp.q, OrdinalToIso(dp.now)),
                      "standalone")
    /\ UNCHANGED <<ndt, ent, reindexVars, retrieveVars, notesVars, watchVars, indexVars>>

\* the dates in the text: the candidates are a set, so the one that fills
\* the empty slots is any of those that normalise to a date
StandaloneStage ==
    /\ dp.pc = "standalone"
    /\ IF dp.start = None /\ dp.end = None /\ StandaloneDates(dp.q) # {}
       THEN \E iso \in StandaloneDates(dp.q) :
               dp' = StageEnd("standalone", [start |-> iso, end |-> iso], "normalize")
       ELSE dp' = StageEnd("standalone", DpSlots, "normalize")
    /\ UNCHANGED <<ndt, ent, reindexVars, retrieveVars, notesVars, watchVars, indexVars>>

\* the order is normalised, and a rule result is returned
Normalize ==
    LET swap == dp.start # None /\ dp.end # None /\ StrGreater(dp.start, dp.end)
        start == IF swap THEN dp.end ELSE dp.start
        end == IF swap THEN dp.start ELSE dp.end
    IN  /\ dp.pc = "normalize"
        /\ dp' = [dp EXCEPT !.start = start, !.end = end,
                            !.pc = IF ReturnsRuleResult(start, end) THEN "returned" ELSE "llm",
                            !.result = IF ReturnsRuleResult(start, end)
                                       THEN <<start, end>> ELSE None]
        /\ UNCHANGED <<ndt, ent, reindexVars, retrieveVars, notesVars, watchVars, indexVars>>

\* what the request to the LLM can end with instead of a JSON object: the
\* connection fails, the read times out, raise_for_status raises, json.loads
\* raises, or the JSON is no object and obj.get raises
LlmFailures == {"ConnectError", "ReadTimeout", "HTTPStatusError", "JSONDecodeError",
                "AttributeError"}

\* the values of start and end in the object the LLM answers
LlmValues == {None, "", "2025-06-01", "2025-01-10", "20250101", "2025-01-15T10:00",
              "tomorrow", "2025-02-30"}

\* the request is made and fails: the except clause returns (None, None)
LlmFails ==
    /\ dp.pc = "llm"
    /\ \E e \in LlmFailures :
          dp' = [dp EXCEPT !.pc = "returned", !.llm = e, !.result = <<None, None>>]
    /\ UNCHANGED <<ndt, ent, reindexVars, retrieveVars, notesVars, watchVars, indexVars>>

\* the request is made and answers an object: both values are validated and
\* the order is normalised
LlmAnswers ==
    /\ dp.pc = "llm"
    /\ \E s0 \in LlmValues, e0 \in LlmValues, py \in PythonVersions :
          LET s == IF _is_iso(s0, py) THEN s0 ELSE None
              e == IF _is_iso(e0, py) THEN e0 ELSE None
              swap == s # None /\ e # None /\ StrGreater(s, e)
          IN  dp' = [dp EXCEPT !.pc = "returned", !.llm = "answered", !.py = py,
                               !.obj = [start |-> s0, end |-> e0],
                               !.result = IF swap THEN <<e, s>> ELSE <<s, e>>]
    /\ UNCHANGED <<ndt, ent, reindexVars, retrieveVars, notesVars, watchVars, indexVars>>

\* parser._norm_date_token(token) is called and returns
norm_date_token ==
    /\ ParsersIdle
    /\ \E fmt \in TokenFormats, y \in TokenYears, m \in TokenMonths, d \in TokenDays :
          /\ MonthWritable(fmt, m)
          /\ LET token == FormatToken(fmt, y, m, d)
             IN  ndt' = [pc |-> "returned", fmt |-> fmt, y |-> y, m |-> m, d |-> d,
                         token |-> token, result |-> _norm_date_token(token)]
    /\ dp' = DpIdle
    /\ ent' = EntIdle
    /\ UNCHANGED <<reindexVars, retrieveVars, notesVars, watchVars, indexVars>>

\* the words the questions to extract_name_terms are made of
NameWords == {"Alice", "ALICE", "Bob", "notes", "Who", "\"Al Bo\"", "'Cy Di'", "\"Al Bo\" and"}

\* questions of up to three words
NameQueries ==
    {w : w \in NameWords}
        \cup {a \o " " \o b : a, b \in NameWords}
        \cup {a \o " " \o b \o " " \o c : a, b, c \in {"Alice", "ALICE", "Bob", "Who", "\"Al Bo\""}}

\* extract_name_terms(q) is called and returns
extract_name_terms_call ==
    /\ ParsersIdle
    /\ \E q \in NameQueries :
          ent' = [pc |-> "returned", q |-> q, result |-> extract_name_terms(q)]
    /\ dp' = DpIdle
    /\ ndt' = NdtIdle
    /\ UNCHANGED <<reindexVars, retrieveVars, notesVars, watchVars, indexVars>>

ParsersInit ==
    /\ dp = DpIdle
    /\ ndt = NdtIdle
    /\ ent = EntIdle

ParsersNext ==
    \/ norm_date_token
    \/ extract_name_terms_call
    \/ ParseStart
    \/ RelativeStage
    \/ QuantifiedStage
    \/ WordsStage
    \/ FortnightStage
    \/ RangeStage
    \/ StandaloneStage
    \/ Normalize
    \/ LlmFails
    \/ LlmAnswers

\* ------------------------------------------------------------------------
\* Calls of the note tools (mcp_stdio.py)
\* ------------------------------------------------------------------------

Claude == Append(HOST_VAULT_PATH, WRITE_VAULT)

\* two vaults below HOST_VAULT_PATH and a directory beside it
DiskInit ==
    LET dirs == {HOST_VAULT_PATH, Claude, Append(HOST_VAULT_PATH, "Other"), <<"outside">>}
        files == {Append(Claude, "a.md"), HOST_VAULT_PATH \o <<"Other", "o.md">>,
                  <<"outside", "f.md">>}
    IN  [p \in dirs \cup files |-> IF p \in dirs THEN DirNode ELSE FileNode("")]

NoNote == [tool |-> None, source |-> "", response |-> None]

\* the source strings of the calls
NoteSources == {"Claude/a.md", "Claude/link/o.md", "Claude/../Other/o.md",
                "Claude/../../outside/f.md", "Other/o.md", "/outside/f.md"}

NoteContents == {"c"}

NoteModes == {"overwrite", "append", "replace"}

\* the symbolic links the owner of the vault may have in it: a directory of
\* the vault that is another vault, and a trash folder kept elsewhere. The
\* tools make no links.
VaultLinks == {[at |-> Append(Claude, "link"), target |-> Append(HOST_VAULT_PATH, "Other")],
               [at |-> Append(Claude, ".trash"), target |-> <<"outside">>]}

\* the owner of the vault puts a symbolic link into it
vault_symlink ==
    /\ \E l \in VaultLinks :
          /\ l.at \notin DOMAIN fs
          /\ fs' = [p \in DOMAIN fs \cup {l.at} |-> IF p = l.at THEN LinkNode(l.target)
                                                  ELSE fs[p]]
    /\ UNCHANGED <<note, trashed, reindexVars, retrieveVars, parserVars, watchVars, indexVars>>

\* the MCP client calls create_note
create_note_call ==
    /\ \E source \in NoteSources, content \in NoteContents, overwrite \in BOOLEAN,
          lint_errors \in BOOLEAN :
          \E r \in {create_note(fs, source, content, overwrite, lint_errors)} :
              /\ fs' = r.disk
              /\ note' = [tool |-> "create_note", source |-> source, response |-> r.response]
    /\ UNCHANGED <<trashed, reindexVars, retrieveVars, parserVars, watchVars, indexVars>>

\* the MCP client calls update_note
update_note_call ==
    /\ \E source \in NoteSources, content \in NoteContents, mode \in NoteModes,
          lint_errors \in BOOLEAN :
          \E r \in {update_note(fs, source, content, mode, lint_errors)} :
              /\ \A p \in DOMAIN r.disk : Len(r.disk[p].content) <= MaxContentLen
              /\ fs' = r.disk
              /\ note' = [tool |-> "update_note", source |-> source, response |-> r.response]
    /\ UNCHANGED <<trashed, reindexVars, retrieveVars, parserVars, watchVars, indexVars>>

\* the MCP client calls delete_note
delete_note_call ==
    /\ \E source \in NoteSources :
          \E r \in {delete_note(fs, source)} :
              /\ fs' = r.disk
              /\ note' = [tool |-> "delete_note", source |-> source, response |-> r.response]
              /\ trashed' = IF r.response = "ok"
                            THEN trashed \cup {[trash |-> delete_note_trash(fs, source),
                                                content |-> fs[_resolve_write_safe(fs, source).path].content]}
                            ELSE trashed
    /\ UNCHANGED <<reindexVars, retrieveVars, parserVars, watchVars, indexVars>>

NotesInit ==
    /\ fs = DiskInit
    /\ note = NoNote
    /\ trashed = {}

NotesNext ==
    \/ vault_symlink
    \/ create_note_call
    \/ update_note_call
    \/ delete_note_call

\* ------------------------------------------------------------------------
\* The watcher (watcher.py)
\* ------------------------------------------------------------------------

\* WATCH_DEBOUNCE_SECS, in ticks of the watcher's time
DEBOUNCE == 3

\* a threading.Timer: left is the time left until its wait ends, files the
\* snapshot _fire took, status the answer to the request _fire posted last
\* ("failed": none), thread the worker thread the server started for it
\* (0: none)
NewTimer == [state |-> "waiting", left |-> DEBOUNCE, files |-> << >>, status |-> "",
             thread |-> 0]

\* the mutant of Cancel: the previous timer is left running
Cancel_never(t) == t

\* Timer.cancel(): a timer still waiting ends without calling its function;
\* on a timer whose wait is over it has no effect
Cancel(t) == IF t.state = "waiting" THEN [t EXCEPT !.state = "cancelled"] ELSE t

\* DebouncedReindex.trigger: self.timer is the timer started last
trigger(ts) ==
    IF Len(ts) = 0 THEN <<NewTimer>>
    ELSE Append([ts EXCEPT ![Len(ts)] = Cancel(ts[Len(ts)])], NewTimer)

\* the vault-relative .md paths of an event: src_path, or src_path and
\* dest_path of a rename
EventPaths == {{"a.md"}, {"a.md", "b.md"}}

\* sorted(_CHANGED)
SortedPaths(set) ==
    IF set = {} THEN << >>
    ELSE IF set = {"a.md"} THEN <<"a.md">>
    ELSE IF set = {"b.md"} THEN <<"b.md">>
    ELSE <<"a.md", "b.md">>

\* Handler.on_any_event for an event with .md paths below WATCH_PATH: the
\* paths are recorded and the debouncer is triggered
on_any_event ==
    /\ Len(timers) < MaxEvents
    /\ \E rels \in EventPaths : _CHANGED' = _CHANGED \cup rels
    /\ timers' = trigger(timers)
    /\ UNCHANGED <<reindexVars, retrieveVars, parserVars, notesVars, indexVars>>

\* time passes for the timers that wait
Tick ==
    /\ \E i \in DOMAIN timers : timers[i].state = "waiting" /\ timers[i].left > 0
    /\ timers' = [i \in DOMAIN timers |->
                     IF timers[i].state = "waiting" /\ timers[i].left > 0
                     THEN [timers[i] EXCEPT !.left = @ - 1] ELSE timers[i]]
    /\ UNCHANGED <<_CHANGED, reindexVars, retrieveVars, parserVars, notesVars, indexVars>>

\* the wait of a timer that was not cancelled is over: it calls _fire
TimerExpires(i) ==
    /\ timers[i].state = "waiting" /\ timers[i].left = 0
    /\ timers' = [timers EXCEPT ![i].state = "fire"]
    /\ UNCHANGED <<_CHANGED, reindexVars, retrieveVars, parserVars, notesVars, indexVars>>

\* _fire: files = sorted(_CHANGED); _CHANGED.clear(); return if empty
FireSnapshot(i) ==
    /\ timers[i].state = "fire"
    /\ timers' = [timers EXCEPT ![i].files = SortedPaths(_CHANGED),
                                ![i].state = IF _CHANGED = {} THEN "returned"
                                             ELSE "post_files"]
    /\ _CHANGED' = {}
    /\ UNCHANGED <<reindexVars, retrieveVars, parserVars, notesVars, indexVars>>

\* the thread StartThread starts
StartedThread == CHOOSE t \in Threads :
                    threads[t].pc = "idle" /\ \A u \in Threads : u < t => threads[u].pc # "idle"

\* _fire: requests.post(RAG_FILES_URL, ...) is answered by reindex_files
\* with status 200
PostFiles(i) ==
    /\ timers[i].state = "post_files"
    /\ IF _index_running
       THEN /\ response' = [endpoint |-> "reindex_files", status |-> "running",
                            queued |-> 0, inflight |-> BuildInFlight]
            /\ timers' = [timers EXCEPT ![i].state = "returned", ![i].status = "running"]
            /\ UNCHANGED threads
       ELSE /\ StartThread("files", timers[i].files)
            /\ response' = [endpoint |-> "reindex_files", status |-> "started",
                            queued |-> Len(timers[i].files), inflight |-> BuildInFlight]
            /\ timers' = [timers EXCEPT ![i].state = "returned", ![i].status = "started",
                                        ![i].thread = StartedThread]
    /\ UNCHANGED <<_index_lock, _index_running, _last_index, clock, _CHANGED>>
    /\ UNCHANGED <<retrieveVars, parserVars, notesVars, indexVars>>

\* _fire: the post raises or is answered with a status >= 400; the full
\* reindex is tried
PostFilesFails(i) ==
    /\ timers[i].state = "post_files"
    /\ timers' = [timers EXCEPT ![i].state = "post_full", ![i].status = "failed"]
    /\ UNCHANGED <<_CHANGED, reindexVars, retrieveVars, parserVars, notesVars, indexVars>>

\* _fire: requests.post(RAG_URL) is answered by reindex
PostFull(i) ==
    /\ timers[i].state = "post_full"
    /\ IF _index_running
       THEN /\ response' = [endpoint |-> "reindex", status |-> "running",
                            queued |-> 0, inflight |-> BuildInFlight]
            /\ timers' = [timers EXCEPT ![i].state = "returned", ![i].status = "running"]
            /\ UNCHANGED threads
       ELSE /\ StartThread("full", << >>)
            /\ response' = [endpoint |-> "reindex", status |-> "started",
                            queued |-> 0, inflight |-> BuildInFlight]
            /\ timers' = [timers EXCEPT ![i].state = "returned", ![i].status = "started",
                                        ![i].thread = StartedThread]
    /\ UNCHANGED <<_index_lock, _index_running, _last_index, clock, _CHANGED>>
    /\ UNCHANGED <<retrieveVars, parserVars, notesVars, indexVars>>

\* _fire: the full reindex request fails too; the error is printed
PostFullFails(i) ==
    /\ timers[i].state = "post_full"
    /\ timers' = [timers EXCEPT ![i].state = "returned", ![i].status = "failed"]
    /\ UNCHANGED <<_CHANGED, reindexVars, retrieveVars, parserVars, notesVars, indexVars>>

WatchInit ==
    /\ _CHANGED = {}
    /\ timers = << >>

\* the watcher and the server's workers
WatchNext ==
    \/ on_any_event
    \/ Tick
    \/ \E i \in DOMAIN timers : TimerExpires(i)
    \/ \E i \in DOMAIN timers : FireSnapshot(i)
    \/ \E i \in DOMAIN timers : PostFiles(i)
    \/ \E i \in DOMAIN timers : PostFilesFails(i)
    \/ \E i \in DOMAIN timers : PostFull(i)
    \/ \E i \in DOMAIN timers : PostFullFails(i)
    \/ \E t \in Threads : WorkerAcquire(t)
    \/ \E t \in Threads : WorkerCheck(t)
    \/ \E t \in Threads : WorkerInitLast(t)
    \/ \E t \in Threads : WorkerBuildReturns(t)
    \/ \E t \in Threads : WorkerBuildRaises(t)
    \/ \E t \in Threads : WorkerFinished(t)
    \/ \E t \in Threads : WorkerAcquireClear(t)
    \/ \E t \in Threads : WorkerClear(t)

\* ------------------------------------------------------------------------
\* The indexer (indexer.py)
\* ------------------------------------------------------------------------

\* the vault-relative paths of the notes
Sources == {"a.md", "b.md"}

\* the lists of sources build_index_files is called with: the body of
\* POST /reindex/files is any list of strings
SourceLists == {<<"a.md">>, <<"b.md">>, <<"a.md", "b.md">>, <<"a.md", "/a.md">>}

RECURSIVE BackslashToSlash(_)
\* src.replace("\\", "/")
BackslashToSlash(s) ==
    IF Len(s) = 0 THEN ""
    ELSE (IF Char(s, 1) = "\\" THEN "/" ELSE Char(s, 1))
            \o BackslashToSlash(SubSeq(s, 2, Len(s)))

RECURSIVE LStripSlash(_)
\* s.lstrip("/")
LStripSlash(s) ==
    IF Len(s) > 0 /\ Char(s, 1) = "/" THEN LStripSlash(SubSeq(s, 2, Len(s))) ELSE s

\* src = src.replace("\\", "/").lstrip("/")
NormSource(src) == LStripSlash(BackslashToSlash(src))

\* md5 of "source::idx": one id for each pair
_doc_id(source, idx) == <<source, idx>>

\* the ids _doc_id(src, 0) .. _doc_id(src, count - 1)
DocIds(src, count) == [i \in 1..count |-> _doc_id(src, i - 1)]

\* no entry of the state for a source: state_files.get(src) is None
NoEntry == [mtime |-> -1, count |-> -1]

\* a path with no file: os.path.exists is false
NoFile == [exists |-> FALSE, mtime |-> 0, chunks |-> 0]

\* no build is executed; failed: a call of the vector store has raised
BuildIdle(failed) ==
    [pc |-> "idle", mode |-> "", sources |-> << >>, state |-> [src \in Sources |-> NoEntry],
     to_delete_ids |-> << >>, to_upsert |-> << >>, total_chunks |-> 0, at |-> "",
     failed |-> failed]

\* a note is written: its mtime grows, its text gives some chunks
vault_write ==
    /\ \E src \in Sources, chunks \in 1..MaxFileChunks :
          /\ vault_md[src].mtime < MaxMtime
          /\ vault_md' = [vault_md EXCEPT ![src] = [exists |-> TRUE, mtime |-> @.mtime + 1,
                                                    chunks |-> chunks]]
    /\ UNCHANGED <<index_state, collection, bi>>
    /\ UNCHANGED <<reindexVars, retrieveVars, parserVars, notesVars, watchVars>>

\* a note is removed
vault_delete ==
    /\ \E src \in Sources :
          /\ vault_md[src].exists
          /\ vault_md' = [vault_md EXCEPT ![src].exists = FALSE]
    /\ UNCHANGED <<index_state, collection, bi>>
    /\ UNCHANGED <<reindexVars, retrieveVars, parserVars, notesVars, watchVars>>

\* build_index_files(sources) is called: the state is loaded
build_index_files ==
    /\ bi.pc = "idle"
    /\ \E sources \in SourceLists :
          bi' = [BuildIdle(bi.failed) EXCEPT !.pc = "loop", !.mode = "files",
                                             !.sources = sources, !.state = index_state]
    /\ UNCHANGED <<vault_md, index_state, collection>>
    /\ UNCHANGED <<reindexVars, retrieveVars, parserVars, notesVars, watchVars>>

\* the sources of the state that vault.rglob("*.md") does not find
Removed == {src \in Sources : index_state[src] # NoEntry /\ ~vault_md[src].exists}

\* all_files of build_index
AllFiles == SortedPaths({src \in Sources : vault_md[src].exists})

\* build_index(): the chunks of the removed files are deleted, the state is
\* saved without them, and build_index_files(all_files) is called
build_index ==
    /\ bi.pc = "idle"
    /\ collection' = {id \in collection :
                        ~(id[1] \in Removed /\ id[2] < index_state[id[1]].count)}
    /\ index_state' = [src \in Sources |-> IF src \in Removed THEN NoEntry
                                            ELSE index_state[src]]
    /\ bi' = [BuildIdle(bi.failed) EXCEPT !.pc = "loop", !.mode = "full",
                                          !.sources = AllFiles, !.state = index_state']
    /\ UNCHANGED vault_md
    /\ UNCHANGED <<reindexVars, retrieveVars, parserVars, notesVars, watchVars>>

\* build_index(): vs._collection.delete raises for the removed files
build_index_raises ==
    /\ bi.pc = "idle"
    /\ Removed # {}
    /\ bi' = [BuildIdle(TRUE) EXCEPT !.pc = "raised", !.mode = "full", !.at = "cleanup"]
    /\ UNCHANGED <<vault_md, index_state, collection>>
    /\ UNCHANGED <<reindexVars, retrieveVars, parserVars, notesVars, watchVars>>

\* the source the loop is at, its file and its entry of the loaded state
LoopSrc == NormSource(Head(bi.sources))
LoopPrev == bi.state[LoopSrc]
LoopOld == IF LoopPrev # NoEntry THEN DocIds(LoopSrc, LoopPrev.count) ELSE << >>

\* `changed`: no entry, or an entry with an older mtime
Changed(prev, mtime) == prev = NoEntry \/ prev.mtime < mtime

\* the loop: the file does not exist (or is gone when getmtime is called):
\* its chunks are marked for deletion and its entry is popped
SourceGone ==
    /\ bi.pc = "loop" /\ bi.sources # << >>
    /\ ~vault_md[LoopSrc].exists
    /\ bi' = [bi EXCEPT !.sources = Tail(@), !.to_delete_ids = @ \o LoopOld,
                        !.state[LoopSrc] = NoEntry]
    /\ UNCHANGED <<vault_md, index_state, collection>>
    /\ UNCHANGED <<reindexVars, retrieveVars, parserVars, notesVars, watchVars>>

\* the loop: the file is not newer than its entry
SourceUnchanged ==
    /\ bi.pc = "loop" /\ bi.sources # << >>
    /\ vault_md[LoopSrc].exists
    /\ ~Changed(LoopPrev, vault_md[LoopSrc].mtime)
    /\ bi' = [bi EXCEPT !.sources = Tail(@)]
    /\ UNCHANGED <<vault_md, index_state, collection>>
    /\ UNCHANGED <<reindexVars, retrieveVars, parserVars, notesVars, watchVars>>

\* the loop: loading the changed file raises; the source is skipped
SourceLoadRaises ==
    /\ bi.pc = "loop" /\ bi.sources # << >>
    /\ vault_md[LoopSrc].exists
    /\ Changed(LoopPrev, vault_md[LoopSrc].mtime)
    /\ bi' = [bi EXCEPT !.sources = Tail(@)]
    /\ UNCHANGED <<vault_md, index_state, collection>>
    /\ UNCHANGED <<reindexVars, retrieveVars, parserVars, notesVars, watchVars>>

\* the loop: the changed file is chunked; the old chunks are marked for
\* deletion, the new ones for upsert, and the entry is set
SourceIndexed ==
    /\ bi.pc = "loop" /\ bi.sources # << >>
    /\ vault_md[LoopSrc].exists
    /\ Changed(LoopPrev, vault_md[LoopSrc].mtime)
    /\ bi' = [bi EXCEPT !.sources = Tail(@),
                        !.to_delete_ids = @ \o LoopOld,
                        !.to_upsert = @ \o DocIds(LoopSrc, vault_md[LoopSrc].chunks),
                        !.total_chunks = @ + vault_md[LoopSrc].chunks,
                        !.state[LoopSrc] = [mtime |-> vault_md[LoopSrc].mtime,
                                            count |-> vault_md[LoopSrc].chunks]]
    /\ UNCHANGED <<vault_md, index_state, collection>>
    /\ UNCHANGED <<reindexVars, retrieveVars, parserVars, notesVars, watchVars>>

\* the loop is over
LoopEnds ==
    /\ bi.pc = "loop" /\ bi.sources = << >>
    /\ bi' = [bi EXCEPT !.pc = "deletes"]
    /\ UNCHANGED <<vault_md, index_state, collection>>
    /\ UNCHANGED <<reindexVars, retrieveVars, parserVars, notesVars, watchVars>>

\* vs._collection.delete(ids=...)
AfterDeletes(coll, ids) == coll \ SeqElems(ids)

\* apply deletes
ApplyDeletes ==
    /\ bi.pc = "deletes"
    /\ collection' = AfterDeletes(collection, bi.to_delete_ids)
    /\ bi' = [bi EXCEPT !.pc = "upserts"]
    /\ UNCHANGED <<vault_md, index_state>>
    /\ UNCHANGED <<reindexVars, retrieveVars, parserVars, notesVars, watchVars>>

\* vs._collection.delete raises
ApplyDeletesRaises ==
    /\ bi.pc = "deletes" /\ bi.to_delete_ids # << >>
    /\ bi' = [bi EXCEPT !.pc = "raised", !.at = "deletes", !.failed = TRUE]
    /\ UNCHANGED <<vault_md, index_state, collection>>
    /\ UNCHANGED <<reindexVars, retrieveVars, parserVars, notesVars, watchVars>>

\* apply upserts: vs.add_texts(texts, metadatas, ids)
ApplyUpserts ==
    /\ bi.pc = "upserts"
    /\ collection' = collection \cup SeqElems(bi.to_upsert)
    /\ bi' = [bi EXCEPT !.pc = "save"]
    /\ UNCHANGED <<vault_md, index_state>>
    /\ UNCHANGED <<reindexVars, retrieveVars, parserVars, notesVars, watchVars>>

\* vs.add_texts raises (the embedder is not reachable, ...)
ApplyUpsertsRaises ==
    /\ bi.pc = "upserts" /\ bi.to_upsert # << >>
    /\ bi' = [bi EXCEPT !.pc = "raised", !.at = "upserts", !.failed = TRUE]
    /\ UNCHANGED <<vault_md, index_state, collection>>
    /\ UNCHANGED <<reindexVars, retrieveVars, parserVars, notesVars, watchVars>>

\* _save_state(state); total_chunks is returned
SaveState ==
    /\ bi.pc = "save"
    /\ index_state' = bi.state
    /\ bi' = [bi EXCEPT !.pc = "returned"]
    /\ UNCHANGED <<vault_md, collection>>
    /\ UNCHANGED <<reindexVars, retrieveVars, parserVars, notesVars, watchVars>>

\* the caller has the result or the exception
BuildEnds ==
    /\ bi.pc \in {"returned", "raised"}
    /\ bi' = BuildIdle(bi.failed)
    /\ UNCHANGED <<vault_md, index_state, collection>>
    /\ UNCHANGED <<reindexVars, retrieveVars, parserVars, notesVars, watchVars>>

\* an empty index, and one note in the vault
IndexerInit ==
    /\ vault_md = [src \in Sources |-> IF src = "a.md"
                                       THEN [exists |-> TRUE, mtime |-> 1, chunks |-> 1]
                                       ELSE NoFile]
    /\ index_state = [src \in Sources |-> NoEntry]
    /\ collection = {}
    /\ bi = BuildIdle(FALSE)

IndexerNext ==
    \/ vault_write
    \/ vault_delete
    \/ build_index_files
    \/ build_index
    \/ build_index_raises
    \/ SourceGone
    \/ SourceUnchanged
    \/ SourceLoadRaises
    \/ SourceIndexed
    \/ LoopEnds
    \/ ApplyDeletes
    \/ ApplyDeletesRaises
    \/ ApplyUpserts
    \/ ApplyUpsertsRaises
    \/ SaveState
    \/ BuildEnds

\* ------------------------------------------------------------------------
\* Specifications
\* ------------------------------------------------------------------------

Init == ReindexInit /\ RetrieveInit /\ ParsersInit /\ NotesInit /\ WatchInit
        /\ IndexerInit

\* the reindex endpoints and their workers
Next == ReindexNext

Spec == Init /\ [][Next]_vars

\* every step of a started worker thread is eventually taken: the scheduler
\* runs each thread, a build returns or raises, and the lock is held only
\* for the few statements of a with block
WorkerStep(t) ==
    \/ WorkerAcquire(t) \/ WorkerCheck(t) \/ WorkerInitLast(t)
    \/ WorkerBuildReturns(t) \/ WorkerBuildRaises(t)
    \/ WorkerFinished(t) \/ WorkerAcquireClear(t) \/ WorkerClear(t)

SpecFair == Spec /\ \A t \in Threads : WF_vars(WorkerStep(t))

\* the retrieval pipeline and the date debug endpoint
NextRetrieve == RetrieveNext

SpecRetrieve == Init /\ [][NextRetrieve]_vars

\* the parsers
NextParsers == ParsersNext

SpecParsers == Init /\ [][NextParsers]_vars

\* the calls of the note tools
NextNotes == NotesNext

SpecNotes == Init /\ [][NextNotes]_vars

\* the watcher and the server
NextWatch == WatchNext

SpecWatch == Init /\ [][NextWatch]_vars

\* the indexer and the vault
NextIndexer == IndexerNext

SpecIndexer == Init /\ [][NextIndexer]_vars

\* the calls of create_note and delete_note alone
NextTrash == create_note_call \/ delete_note_call

SpecTrash == Init /\ [][NextTrash]_vars

\* ------------------------------------------------------------------------
\* Claims
\* ------------------------------------------------------------------------

\* C1: under any interleaving of the reindex requests, at most one index
\* build (build_index or build_index_files) is executing at any time.
C1_AtMostOneBuild ==
    Cardinality({t \in Threads : threads[t].pc = "build"}) <= 1

\* a build is executing while another worker found the flag set and returned
C1_Witness ==
    \E t, u \in Threads :
        /\ threads[t].pc = "build"
        /\ threads[u].pc = "dropped"

\* C2: a reindex trigger handled while an index build is in flight is answered
\* with the status "running" (it is not answered as started or queued).
C2_RejectedWhileInFlight ==
    response.inflight => response.status = "running"

\* C2 is violated by POST /reindex/scan: it never looks at the flag.

\* the chunk's entry_date parses and lies within the bounds of the call
C3_DateWithin(d) ==
    LET o == IsoToOrdinal(Meta(d).entry_date)
    IN  /\ Meta(d).entry_date # None
        /\ o # -1
        /\ retr.start # None => IsoToOrdinal(retr.start) <= o
        /\ retr.end # None => o <= IsoToOrdinal(retr.end)

\* the wide-net search of the call has returned its candidate pool
C3_WideSearchDone ==
    \E i \in 1..Len(retr.calls) :
        retr.calls[i].filter = NoFilter /\ ~retr.calls[i].raised /\ retr.calls[i].query = RetrQAug

C4_TermMatches(t, d) ==
    LET tl == StrLower(t)
        vs == values_lower(Meta(d))
    IN  \/ \E j \in 1..Len(vs) : StrIn(tl, vs[j]) \/ StrIn(vs[j], tl)
        \/ StrIn(tl, StrLower(Meta(d).title))
        \/ StrIn(tl, StrLower(Meta(d).source))

C4_AllTermsMatch(d) ==
    \A i \in 1..Len(retr.name_terms) : C4_TermMatches(retr.name_terms[i], d)

C10_ParseDatesAnswersPair ==
    parse_dates.status # 0 =>
        /\ parse_dates.status = 200
        /\ parse_dates.body = [start |-> parse_dates.parsed[1],
                               end |-> parse_dates.parsed[2]]

\* the snapshot a worker leaves: finished is set, and ok with the build's
\* return value in chunks, or not ok with the exception's text in error
C19_Snapshot(t) ==
    /\ _last_index.finished > 0
    /\ _last_index.finished >= _last_index.started
    /\ IF threads[t].n # -1
       THEN _last_index.ok /\ _last_index.chunks = threads[t].n
       ELSE /\ ~_last_index.ok
            /\ threads[t].e \in BuildErrors
            /\ _last_index.error = threads[t].e

\* C19: every run of _reindex_worker or _reindex_worker_files that starts a
\* build eventually clears the running flag with a finished time recorded,
\* whether the build returns or raises; the snapshot then has ok = true and
\* chunks = the build's return value, or ok = false and the exception's text
\* in error.
C19_WorkerCompletes ==
    /\ \A t \in Threads :
           (threads[t].pc = "build") ~>
               (threads[t].pc = "done" /\ ~_index_running /\ _last_index.finished > 0)
    /\ [][\A t \in Threads :
               (threads[t].pc = "clear" /\ threads'[t].pc = "done")
                   => /\ ~_index_running'
                      /\ _last_index' = _last_index
                      /\ C19_Snapshot(t)]_vars

\* a worker whose build raised has cleared the flag
C19_Witness ==
    \E t \in Threads :
        /\ threads[t].pc = "done"
        /\ ~_index_running
        /\ ~_last_index.ok
        /\ _last_index.error \in BuildErrors
        /\ _last_index.finished > 0

\* C17: for every accepted token format, _norm_date_token returns None for a
\* token whose year, month and day are no real calendar date, and the ISO
\* date of the token otherwise ("Month YYYY" stands for the first of the
\* month).
C17_OnlyRealDates ==
    ndt.pc = "returned" =>
        LET d == IF ndt.fmt = "Month YYYY" THEN 1 ELSE ndt.d
        IN  ndt.result = IF ValidYMD(ndt.y, ndt.m, d)
                         THEN IsoFormat(ndt.y, ndt.m, d) ELSE None

\* the position of the first occurrence of term in q, 0 when there is none
C18_FirstPos(term, q) ==
    IF StrIn(term, q)
    THEN CHOOSE i \in 1..Len(q) :
             /\ SubSeq(q, i, i + Len(term) - 1) = term
             /\ \A j \in 1..(i - 1) : SubSeq(q, j, j + Len(term) - 1) # term
    ELSE 0

\* C18: the list extract_name_terms returns has no two terms that are equal
\* ignoring case, and its terms are in the order of their first occurrence
\* in the query.
C18_NoDuplicatesIgnoringCase ==
    ent.pc = "returned" =>
        \A i, j \in 1..Len(ent.result) :
            i < j =>
                /\ StrLower(ent.result[i]) # StrLower(ent.result[j])
                /\ C18_FirstPos(ent.result[i], ent.q) > 0
                /\ C18_FirstPos(ent.result[i], ent.q) < C18_FirstPos(ent.result[j], ent.q)

\* ------------------------------------------------------------------------
\* C14: DateParser.parse never ends with an unhandled exception, neither
\* for an unresolvable time zone identifier nor for a raising LLM call.
\* ------------------------------------------------------------------------
C14_ParseNeverRaises == dp.pc # "raised"

\* ------------------------------------------------------------------------
\* C12: the request to the LLM is made only if no rule stage produced a
\* start or an end; when a rule stage set a bound, parse returns the rule
\* result and makes no request.
\* ------------------------------------------------------------------------
C12_LlmOnlyWithoutRuleBound ==
    /\ (dp.pc = "llm" \/ dp.llm # None) =>
          dp.set_by = << >> /\ dp.start = None /\ dp.end = None
    /\ (dp.pc = "returned" /\ dp.set_by # << >>) =>
          dp.llm = None /\ dp.result = <<dp.start, dp.end>>

\* a rule stage set a bound and parse returned it without a request
C12_Witness ==
    /\ dp.pc = "returned" /\ dp.set_by = <<"quantified">> /\ dp.llm = None
    /\ dp.result[1] # None /\ dp.result[2] # None

\* ------------------------------------------------------------------------
\* C13: when the LLM fallback fails (connection, timeout, HTTP status, no
\* valid JSON) parse returns (None, None) and raises nothing; a returned
\* start or end that is no valid ISO date is replaced by None on its own,
\* the other one is kept.
\* ------------------------------------------------------------------------

\* the answers that are ISO 8601 dates, and those in the extended format
C13_IsoDates == {"2025-06-01", "2025-01-10", "20250101", "2025-01-15T10:00"}
C13_ExtendedDates == {"2025-06-01", "2025-01-10"}

C13_LlmFailureGivesNone ==
    /\ dp.llm \in LlmFailures => dp.pc = "returned" /\ dp.result = <<None, None>>
    /\ dp.llm = "answered" =>
          /\ dp.pc = "returned"
          /\ \A i \in 1..2 :
                \/ dp.result[i] = None
                \/ dp.result[i] \in {dp.obj.start, dp.obj.end} \cap C13_IsoDates
          /\ \A v \in {dp.obj.start, dp.obj.end} \cap C13_ExtendedDates :
                v \in {dp.result[1], dp.result[2]}

\* the LLM answered a start that is no date and an end that is one
C13_Witness ==
    /\ dp.pc = "returned" /\ dp.llm = "answered"
    /\ dp.obj = [start |-> "tomorrow", end |-> "2025-01-10"]
    /\ dp.result = <<None, "2025-01-10">>

\* ------------------------------------------------------------------------
\* C15: parse runs its stages in the order relative phrases, quantified
\* windows, fortnight, explicit ranges, standalone dates, and no stage
\* changes a start or an end that an earlier stage has set.
\* ------------------------------------------------------------------------
C15_StageOrder ==
    [pc \in {"relative", "quantified", "words", "fortnight", "range", "standalone"} |->
        CASE pc = "relative" -> "quantified"
          [] pc = "quantified" -> "words"
          [] pc = "words" -> "fortnight"
          [] pc = "fortnight" -> "range"
          [] pc = "range" -> "standalone"
          [] pc = "standalone" -> "normalize"]

C15_FirstMatchWins ==
    [][dp.pc \in DOMAIN C15_StageOrder =>
          /\ dp'.pc = C15_StageOrder[dp.pc]
          /\ dp.start # None => dp'.start = dp.start
          /\ dp.end # None => dp'.end = dp.end]_vars

\* the relative stage set both slots, and the quantified stage, which found
\* a window in the question, left them as they were
C15_Witness ==
    /\ dp.pc = "words" /\ dp.set_by = <<"relative">>
    /\ Len(WindowsOf(dp.q, dp.now, LAST_N_RE, LastNDigits)) > 0
    /\ dp.start # None /\ dp.end # None

\* ------------------------------------------------------------------------
\* C11: every result of parse with both bounds set has start <= end as
\* dates, from the rule stages as well as from the LLM fallback.
\* ------------------------------------------------------------------------

\* the day a returned bound names
C11_Day(d) == FromIsoFormat(d, "3.11")

C11_StartNotAfterEnd ==
    (dp.pc = "returned" /\ dp.result[1] # None /\ dp.result[2] # None) =>
        C11_Day(dp.result[1]) <= C11_Day(dp.result[2])

\* ------------------------------------------------------------------------
\* C16: for a question whose only temporal phrase is "last|past|previous N
\* unit" or "in the last N unit", parse returns end = today and start =
\* today - N*m days, m = 1, 7, 30, 365 for days, weeks, months, years.
\* ------------------------------------------------------------------------

\* the window the question x of QuantQueries asks for
C16_Window(x) == <<OrdinalToIso(dp.now - x.n * x.days), OrdinalToIso(dp.now)>>

\* as stated: N any decimal integer or a number word one..twenty
C16_QuantifiedWindow ==
    dp.pc = "returned" => \A x \in QuantQueries : x.q = dp.q => dp.result = C16_Window(x)

\* as the code has it: N a decimal integer of one to three digits or a
\* number word one..twenty; with more digits no rule reads the phrase
C16_QuantifiedWindowUpTo999 ==
    dp.pc = "returned" =>
        \A x \in QuantQueries :
            x.q = dp.q => IF x.n <= 999 THEN dp.result = C16_Window(x)
                          ELSE dp.set_by = << >> /\ dp.llm # None

\* a window of 999 months was returned
C16_Witness ==
    /\ dp.pc = "returned" /\ dp.q = "notes in the last 999 month"
    /\ dp.result = <<OrdinalToIso(dp.now - 29970), OrdinalToIso(dp.now)>>

\* ------------------------------------------------------------------------
\* C20: create_note, update_note and delete_note never create, modify,
\* move or remove a file outside HOST_VAULT_PATH/WRITE_VAULT, whatever the
\* source; a source outside the write vault, also one that begins with
\* WRITE_VAULT and leaves it through "..", is answered write_not_permitted
\* or path_traversal.
\* ------------------------------------------------------------------------

\* what is on the disk outside HOST_VAULT_PATH/WRITE_VAULT
C20_Outside(disk) == [p \in {q \in DOMAIN disk : ~IsRelativeTo(q, Claude)} |-> disk[p]]

\* the sources that name a place outside the write vault
C20_SourcesOutside == {"Claude/../Other/o.md", "Claude/../../outside/f.md", "Other/o.md",
                       "/outside/f.md"}

C20_WritesStayInWriteVault ==
    /\ [](note.source \in C20_SourcesOutside =>
             note.response \in {"write_not_permitted", "path_traversal"})
    /\ [][C20_Outside(fs') = C20_Outside(fs)]_vars

\* ------------------------------------------------------------------------
\* C21: when create_note or update_note returns an error result, the files
\* and directories are exactly as before the call: lint errors block the
\* write, and an existing note is overwritten only with overwrite=True.
\* ------------------------------------------------------------------------
C21_ErrorResults == {"write_not_permitted", "path_traversal", "already_exists", "not_found",
                     "invalid_mode", "validation_failed"}

\* every step that is not the owner's and ends with an error result of
\* create_note or update_note is the step of such a call
C21_ErrorLeavesDiskAlone ==
    [][(/\ ~vault_symlink
        /\ note'.tool \in {"create_note", "update_note"}
        /\ note'.response \in C21_ErrorResults) => fs' = fs]_vars

\* create_note refused to overwrite a note that had been written before
C21_Witness ==
    /\ note.tool = "create_note" /\ note.response = "already_exists"
    /\ note.source = "Claude/a.md"
    /\ fs[Append(Claude, "a.md")].content = "c"

\* C30: after any sequence of create_note and delete_note calls, the content
\* of every note whose delete_note returned ok is still present under
\* WRITE_VAULT/.trash at the returned trash path.
C30_TrashedContentKept ==
    \A t \in trashed :
        LET at == Resolve(fs, HOST_VAULT_PATH \o t.trash)
        IN  at \in DOMAIN fs /\ fs[at].kind = "file" /\ fs[at].content = t.content

\* ------------------------------------------------------------------------
\* C24: for 'between D1 and D2', 'from D1 to|until D2', 'since D', 'after D'
\* and 'before D' with ISO dates and no relative phrase, the explicit range
\* stage contributes nothing, and parse returns start = end = one of the
\* ISO dates of the question.
\* ------------------------------------------------------------------------

\* the questions of these forms, with their ISO dates
C24_Dates ==
    [q \in {"between 2025-01-10 and 2025-01-05", "from 2025-01-05 to 2025-01-09",
            "from 2025-01-05 until 2025-01-09", "since 2025-01-10", "after 2025-01-10",
            "before 2025-01-10"} |->
        CASE q = "between 2025-01-10 and 2025-01-05" -> {"2025-01-10", "2025-01-05"}
          [] q \in {"from 2025-01-05 to 2025-01-09", "from 2025-01-05 until 2025-01-09"} ->
                {"2025-01-05", "2025-01-09"}
          [] OTHER -> {"2025-01-10"}]

C24_RangeContributesNothing ==
    dp.q \in DOMAIN C24_Dates =>
        /\ dp.pc = "standalone" => dp.start = None /\ dp.end = None
        /\ "range" \notin SeqElems(dp.set_by)
        /\ dp.pc = "returned" =>
              /\ dp.result[1] = dp.result[2]
              /\ dp.result[1] \in C24_Dates[dp.q]

\* parse returned the first date of a 'from D1 to D2' question as both bounds
C24_Witness ==
    /\ dp.q = "from 2025-01-05 to 2025-01-09" /\ dp.pc = "returned"
    /\ dp.set_by = <<"standalone">>
    /\ dp.result = <<"2025-01-05", "2025-01-05">>

C25_NoAcceptedRequestDropped ==
    \A t \in Threads : threads[t].pc # "dropped"

\* ------------------------------------------------------------------------
\* C27: whenever GET /reindex/status observes running = true, the 'last'
\* snapshot describes the build now in flight (its own started time and
\* mode, finished = 0), never a previous or finished build. The handler
\* returns the two globals as they are, so what it can observe is every
\* reachable value of the pair.
\* ------------------------------------------------------------------------
C27_RunningSnapshotIsCurrent ==
    _index_running =>
        \E t \in Threads :
            /\ threads[t].pc \in {"init_last", "build", "finally", "acquire_clear", "clear"}
            /\ _last_index.mode = threads[t].target
            /\ _last_index.files = threads[t].files
            /\ _last_index.started > 0
            /\ _last_index.finished = 0

\* ------------------------------------------------------------------------
\* C22: DebouncedReindex.trigger cancels the previously scheduled timer
\* before it starts a new one, so at most one timer is pending at any time,
\* and a burst of triggers closer together than the delay leads to a single
\* _fire, after the last trigger of the burst.
\* ------------------------------------------------------------------------

\* the timers that will call _fire when their wait is over
C22_Pending == {i \in DOMAIN timers : timers[i].state = "waiting"}

\* the timers that have called _fire
C22_Fired == {i \in DOMAIN timers :
                timers[i].state \in {"fire", "post_files", "post_full", "returned"}}

C22_Debounced ==
    /\ [](/\ Cardinality(C22_Pending) <= 1
          /\ C22_Pending \subseteq {Len(timers)}
          \* a timer followed by a trigger before its delay was over never fires
          /\ \A i \in DOMAIN timers :
                (i < Len(timers) /\ timers[i].left > 0) => timers[i].state = "cancelled"
          \* _fire is called when the whole delay has passed since the trigger
          /\ \A i \in C22_Fired : timers[i].left = 0)
    /\ [][Len(timers') > Len(timers) =>
              /\ Len(timers') = Len(timers) + 1
              /\ timers'[Len(timers')] = NewTimer
              /\ \A i \in DOMAIN timers : timers'[i].state # "waiting"]_vars

\* two triggers in a burst: the first timer was cancelled during its delay,
\* the second has fired alone with the paths of both events
C22_Witness ==
    /\ Len(timers) = 2
    /\ timers[1].state = "cancelled" /\ timers[1].left > 0
    /\ timers[2].state = "returned" /\ timers[2].files = <<"a.md", "b.md">>

\* ------------------------------------------------------------------------
\* C26: every changed .md path that Handler.on_any_event records is
\* eventually covered by an index build the server executes, also when a
\* build is in flight when the watcher's _fire posts its request. A path
\* leaves _CHANGED only in the snapshot of a _fire, so it can be covered
\* only if the request that _fire posted made the server start a worker, and
\* that worker builds. Stated for the requests the server answered.
\* ------------------------------------------------------------------------
C26_ChangedPathsCovered ==
    \A i \in DOMAIN timers :
        (/\ timers[i].state = "returned" /\ timers[i].files # << >>
         /\ timers[i].status # "failed") =>
            /\ timers[i].thread # 0
            /\ threads[timers[i].thread].pc # "dropped"

\* ------------------------------------------------------------------------
\* C28: after any sequence of build_index_files and build_index runs in
\* which no call of the vector store failed, for every source in the index
\* state with count n the store holds exactly the chunks _doc_id(source, 0)
\* .. _doc_id(source, n - 1), and no chunk of a source without an entry.
\* ------------------------------------------------------------------------

\* the indices of the chunks of src in the store
C28_Stored(src) == {id[2] : id \in {x \in collection : x[1] = src}}

C28_StateMatchesStore ==
    (bi.pc = "idle" /\ ~bi.failed) =>
        \A src \in Sources :
            C28_Stored(src) = IF index_state[src] = NoEntry THEN {}
                              ELSE 0..(index_state[src].count - 1)

\* ------------------------------------------------------------------------
\* C29: if build_index_files is aborted by an exception while it applies
\* the deletes or the upserts, the persisted state and the vector store
\* remain consistent: no source is recorded with count n while chunks of
\* it are missing.
\* ------------------------------------------------------------------------
C29_AbortLeavesConsistent ==
    (bi.pc = "raised" /\ bi.at \in {"deletes", "upserts"}) =>
        \A src \in Sources :
            index_state[src] # NoEntry =>
                0..(index_state[src].count - 1) \subseteq C28_Stored(src)

====
